---- MODULE Spec2Model ----
(***************************************************************************)
(* Layer ingestion of mundi.ai: the SSRF guard validate_remote_url, the    *)
(* remote-add handler add_remote_layer and the upload handler              *)
(* internal_upload_layer of src/src/routes/postgres_routes.py.             *)
(*                                                                         *)
(* Python strings are sequences of one-character strings, so that          *)
(* startswith, replace, upper/lower, urlparse and the suffix functions are *)
(* computed character by character as the library computes them.          *)
(***************************************************************************)
EXTENDS Integers, Sequences, FiniteSets, TLC

VARIABLES
    pc,                 \* position of the one request handler in flight
    request,            \* RemoteLayerRequest: url, source_type, add_layer_to_map
    file,               \* UploadFile of internal_upload_layer: its extension and content
    dns,                \* what socket.getaddrinfo answered inside validate_remote_url
    validated,          \* validate_remote_url returned (did not raise) for request.url
    benign,             \* every collaborator consulted so far answered without a failure
    local,              \* the handler's local variables
    disk,               \* temporary files that exist on the local disk
    net,                \* outbound network requests issued so far, in order
    dataset,            \* what fiona or GDAL found in the source they opened
    tools,              \* external tools run so far, in order, with their exit codes
    s3,                 \* keys present in the object store
    map_layers,         \* table map_layers: layer_id -> row
    user_mundiai_maps,  \* table user_mundiai_maps: map id -> layers array
    layer_styles,       \* table layer_styles: rows (style_id, layer_id)
    response            \* the HTTP response of the handler

vars == <<pc, request, file, dns, validated, benign, local, disk, net, dataset, tools, s3,
          map_layers, user_mundiai_maps, layer_styles, response>>

----------------------------------------------------------------------------
(* Bounds of the model *)

\* longest address list socket.getaddrinfo returns
MaxAddrs == 2
\* largest feature count a data source reports
MaxFeatures == 2
\* most columns in the header row of an uploaded CSV
MaxHeader == 2
\* most sublayers (folders) in an uploaded KML or KMZ
MaxSublayers == 2
\* most requests for the COG of one layer in flight together
MaxCogRequests == 2
\* most features of a layer whose attribute table is read
MaxAttrFeatures == 3
\* largest offset of an attribute-table request
MaxOffset == 4
\* largest small limit of an attribute-table request
MaxSmallLimit == 3
\* largest magnitude of a term of a geotransform
MaxPixelTerm == 1
\* largest width and height of a raster in pixels
MaxRasterSize == 2
\* largest zoom level and tile coordinate beside the out-of-range ones
MaxTileCoord == 1
\* most requests for the room of one project in flight together
MaxRoomCallers == 2
\* largest size in bytes of a stored object served by byte range
MaxFileSize == 3
\* largest number written in a Range header
MaxRangeNumber == 4

----------------------------------------------------------------------------
(* str *)

MinOf(S) == CHOOSE x \in S : \A y \in S : x <= y
MaxOf(S) == CHOOSE x \in S : \A y \in S : x >= y

\* s[i:] and s[:i] with Python's 0-based offsets
From(s, i) == SubSeq(s, i + 1, Len(s))
Upto(s, i) == SubSeq(s, 1, IF i > Len(s) THEN Len(s) ELSE i)

MatchAt(s, sub, i) == i + Len(sub) <= Len(s) /\ SubSeq(s, i + 1, i + Len(sub)) = sub

\* str.startswith, `sub in s`
StartsWith(s, p) == MatchAt(s, p, 0)
Contains(s, sub) == \E i \in 0..Len(s) : MatchAt(s, sub, i)

\* str.find and str.rfind: 0-based offset of the first / last match, -1 if none
Find(s, sub) ==
    LET hits == {i \in 0..Len(s) : MatchAt(s, sub, i)}
    IN  IF hits = {} THEN -1 ELSE MinOf(hits)
RFind(s, sub) ==
    LET hits == {i \in 0..Len(s) : MatchAt(s, sub, i)}
    IN  IF hits = {} THEN -1 ELSE MaxOf(hits)

\* str.replace(old, new): every non-overlapping occurrence, leftmost first
RECURSIVE Replace(_, _, _)
Replace(s, old, new) ==
    LET i == Find(s, old)
    IN  IF i = -1 THEN s
        ELSE Upto(s, i) \o new \o Replace(From(s, i + Len(old)), old, new)

LowerLetters == <<"a", "b", "c", "d", "e", "f", "g", "h", "i", "j", "k", "l", "m",
                  "n", "o", "p", "q", "r", "s", "t", "u", "v", "w", "x", "y", "z">>
UpperLetters == <<"A", "B", "C", "D", "E", "F", "G", "H", "I", "J", "K", "L", "M",
                  "N", "O", "P", "Q", "R", "S", "T", "U", "V", "W", "X", "Y", "Z">>
Digits == {"0", "1", "2", "3", "4", "5", "6", "7", "8", "9"}

IndexIn(seq, c) ==
    IF \E i \in 1..Len(seq) : seq[i] = c
    THEN CHOOSE i \in 1..Len(seq) : seq[i] = c
    ELSE 0
UpperChar(c) == IF IndexIn(LowerLetters, c) > 0 THEN UpperLetters[IndexIn(LowerLetters, c)] ELSE c
LowerChar(c) == IF IndexIn(UpperLetters, c) > 0 THEN LowerLetters[IndexIn(UpperLetters, c)] ELSE c

\* str.upper, str.lower
Upper(s) == [i \in 1..Len(s) |-> UpperChar(s[i])]
Lower(s) == [i \in 1..Len(s) |-> LowerChar(s[i])]

\* str.strip
IsSpace(c) == c \in {" ", "\t"}
Strip(s) ==
    LET kept == {i \in 1..Len(s) : ~IsSpace(s[i])}
    IN  IF kept = {} THEN <<>> ELSE SubSeq(s, MinOf(kept), MaxOf(kept))

IsLetter(c) == IndexIn(LowerLetters, c) > 0 \/ IndexIn(UpperLetters, c) > 0

----------------------------------------------------------------------------
(* String literals of the source *)

CSV_VSICURL == <<"C", "S", "V", ":", "/", "v", "s", "i", "c", "u", "r", "l", "/">>
CSV_COLON == <<"C", "S", "V", ":">>
WFS_COLON == <<"W", "F", "S", ":">>
ESRIJSON_COLON == <<"E", "S", "R", "I", "J", "S", "O", "N", ":">>
HTTP == <<"h", "t", "t", "p">>
HTTP_SCHEME == <<"h", "t", "t", "p", ":", "/", "/">>
HTTPS_SCHEME == <<"h", "t", "t", "p", "s", ":", "/", "/">>
SERVICE_WFS == <<"S", "E", "R", "V", "I", "C", "E", "=", "W", "F", "S">>
REQUEST_GETFEATURE == <<"R", "E", "Q", "U", "E", "S", "T", "=", "G", "E", "T", "F", "E", "A", "T", "U", "R", "E">>
FEATURE_SERVER == <<"/", "F", "e", "a", "t", "u", "r", "e", "S", "e", "r", "v", "e", "r">>
MAP_SERVER == <<"/", "M", "a", "p", "S", "e", "r", "v", "e", "r">>
QUERY == <<"/", "q", "u", "e", "r", "y">>
EXT_FGB == <<".", "f", "g", "b">>
EXT_CSV == <<".", "c", "s", "v">>
EXT_GML == <<".", "g", "m", "l">>
EXT_GEOJSON == <<".", "g", "e", "o", "j", "s", "o", "n">>
EXT_TIF == <<".", "t", "i", "f">>
EXT_TIFF == <<".", "t", "i", "f", "f">>
EXT_JPG == <<".", "j", "p", "g">>
EXT_JPEG == <<".", "j", "p", "e", "g">>
EXT_PNG == <<".", "p", "n", "g">>
EXT_DEM == <<".", "d", "e", "m">>
EXT_PMTILES == <<".", "p", "m", "t", "i", "l", "e", "s">>

EXT_KML == <<".", "k", "m", "l">>
EXT_KMZ == <<".", "k", "m", "z">>
EXT_ZIP == <<".", "z", "i", "p">>
EXT_GPKG == <<".", "g", "p", "k", "g">>
EXT_LAS == <<".", "l", "a", "s">>
EXT_LAZ == <<".", "l", "a", "z">>

\* the extensions add_remote_layer and internal_upload_layer take for rasters
RasterExtensions == {EXT_TIF, EXT_TIFF, EXT_JPG, EXT_JPEG, EXT_PNG, EXT_DEM}

----------------------------------------------------------------------------
(* urllib.parse, pathlib, os.path *)

FindFrom(s, sub, start) ==
    LET hits == {i \in start..Len(s) : MatchAt(s, sub, i)}
    IN  IF hits = {} THEN -1 ELSE MinOf(hits)

SchemeChars == Digits \cup {"+", "-", "."}
IsSchemeChar(c) == IsLetter(c) \/ c \in SchemeChars

\* urlsplit's _splitnetloc(url, 2): the offset at which the netloc ends
NetlocEnd(u) ==
    LET ends == {FindFrom(u, <<c>>, 2) : c \in {"/", "?", "#"}} \ {-1}
    IN  IF ends = {} THEN Len(u) ELSE MinOf(ends)

\* urlparse's _splitparams(url): the path without its ;parameters
SplitParams(path) ==
    LET i == IF Contains(path, <<"/">>)
             THEN FindFrom(path, <<";">>, RFind(path, <<"/">>))
             ELSE Find(path, <<";">>)
    IN  IF i < 0 THEN path ELSE Upto(path, i)

\* urlsplit's scheme step: url[:i].lower() and url[i+1:] if url[:i] is a scheme
SplitScheme(url) ==
    LET i == Find(url, <<":">>)
    IN  IF i > 0 /\ IsLetter(url[1]) /\ \A k \in 1..i : IsSchemeChar(url[k])
        THEN [scheme |-> Lower(Upto(url, i)), url |-> From(url, i + 1)]
        ELSE [scheme |-> <<>>, url |-> url]

\* urlsplit's netloc step: `if url[:2] == '//': netloc, url = _splitnetloc(url, 2)`
SplitNetloc(url) ==
    IF Upto(url, 2) = <<"/", "/">>
    THEN [netloc |-> SubSeq(url, 3, NetlocEnd(url)), url |-> From(url, NetlocEnd(url))]
    ELSE [netloc |-> <<>>, url |-> url]

\* url.split(c, 1)[0] if c in url, else url
Before(url, c) == IF Contains(url, c) THEN Upto(url, Find(url, c)) ELSE url

\* urlsplit's bracket check: "Invalid IPv6 URL"
InvalidIPv6(netloc) ==
    (Contains(netloc, <<"[">>) /\ ~Contains(netloc, <<"]">>))
    \/ (Contains(netloc, <<"]">>) /\ ~Contains(netloc, <<"[">>))

\* urlparse's `if ';' in url: url, params = _splitparams(url)`
StripParams(url) == IF Contains(url, <<";">>) THEN SplitParams(url) ELSE url

\* the ParseResult built from the scheme and from the netloc step's outcome
ParseResult(scheme, n) ==
    [raises |-> InvalidIPv6(n.netloc),
     scheme |-> scheme,
     netloc |-> n.netloc,
     path   |-> StripParams(Before(Before(n.url, <<"#">>), <<"?">>))]

urlparse_rest(s) == ParseResult(s.scheme, SplitNetloc(s.url))

\* urlparse(url): raises ValueError("Invalid IPv6 URL"), or gives scheme, netloc, path
urlparse(url) == urlparse_rest(SplitScheme(url))

\* ParseResult.hostname: <<>> stands for None
hostname_of(netloc) ==
    LET at       == RFind(netloc, <<"@">>)
        hostinfo == IF at = -1 THEN netloc ELSE From(netloc, at + 1)
        br       == Find(hostinfo, <<"[">>)
        bracketed == From(hostinfo, br + 1)
        cl       == Find(bracketed, <<"]">>)
        col      == Find(hostinfo, <<":">>)
        host     == IF br >= 0
                    THEN (IF cl = -1 THEN bracketed ELSE Upto(bracketed, cl))
                    ELSE (IF col = -1 THEN hostinfo ELSE Upto(hostinfo, col))
    IN  Lower(host)

\* PurePosixPath(p).name: the last component that is neither empty nor "."
RECURSIVE PathName(_)
PathName(p) ==
    IF p = <<>> THEN <<>>
    ELSE LET i    == RFind(p, <<"/">>)
             last == From(p, i + 1)
         IN  IF last = <<>> \/ last = <<".">>
             THEN (IF i = -1 THEN <<>> ELSE PathName(Upto(p, i)))
             ELSE last

\* PurePosixPath(p).suffix
PathSuffix(p) ==
    LET name == PathName(p)
        i    == RFind(name, <<".">>)
    IN  IF 0 < i /\ i < Len(name) - 1 THEN From(name, i) ELSE <<>>

\* os.path.splitext(p)[1]
SplitExt(p) ==
    LET sepIndex == RFind(p, <<"/">>)
        dotIndex == RFind(p, <<".">>)
    IN  IF dotIndex > sepIndex /\ \E k \in (sepIndex + 1)..(dotIndex - 1) : p[k + 1] # "."
        THEN From(p, dotIndex)
        ELSE <<>>

----------------------------------------------------------------------------
(* ipaddress and socket *)

\* the address strings getaddrinfo may return in this model
AddressStrings ==
    {"93.184.216.34", "10.0.0.1", "127.0.0.1", "169.254.1.1", "169.254.169.254",
     "169.254.170.2", "100.100.100.200", "224.0.0.1", "not-an-address"}

\* ipaddress.ip_address(ip_str): ValueError (valid = FALSE) or the address's properties
ip_address(ip_str) ==
    [valid         |-> ip_str # "not-an-address",
     is_private    |-> ip_str \in {"10.0.0.1", "127.0.0.1", "169.254.1.1",
                                  "169.254.169.254", "169.254.170.2"},
     is_loopback   |-> ip_str = "127.0.0.1",
     is_link_local |-> ip_str \in {"169.254.1.1", "169.254.169.254", "169.254.170.2"},
     is_multicast  |-> ip_str = "224.0.0.1"]

cloud_metadata_ips == {"169.254.169.254", "169.254.170.2", "100.100.100.200"}

AddressLists == UNION {[1..n -> AddressStrings] : n \in 1..MaxAddrs}

\* socket.getaddrinfo(hostname, ...): socket.gaierror, another exception (UnicodeError
\* of the idna codec), or a non-empty list of address strings
DnsAnswers ==
    {[kind |-> "gaierror", ips |-> <<>>], [kind |-> "error", ips |-> <<>>]}
    \cup {[kind |-> "ok", ips |-> l] : l \in AddressLists}

NoDns == [kind |-> "unused", ips |-> <<>>]

----------------------------------------------------------------------------
(* validate_remote_url *)

Raise400(detail, resolved) ==
    [raised |-> TRUE, status_code |-> 400, detail |-> detail, resolved |-> resolved]
Returned(resolved) ==
    [raised |-> FALSE, status_code |-> 200, detail |-> "", resolved |-> resolved]

\* check_ip with the `except ValueError` handler skipping the address
check_ip_skipping_invalid(ip_str) ==
    LET ip == ip_address(ip_str)
    IN  IF ~ip.valid THEN "ok"
        ELSE IF ip.is_private THEN "Access to private IP addresses is not allowed"
        ELSE IF ip.is_loopback THEN "Access to loopback addresses is not allowed"
        ELSE IF ip.is_link_local THEN "Access to link-local addresses is not allowed"
        ELSE IF ip.is_multicast THEN "Access to multicast addresses is not allowed"
        ELSE IF ip_str \in cloud_metadata_ips
             THEN "Access to cloud metadata endpoints is not allowed"
        ELSE "ok"

\* the body of `for ip_str in ips` for one address: the detail it raises with, or "ok"
check_ip(ip_str) ==
    LET ip == ip_address(ip_str)
    IN  IF ~ip.valid THEN "Invalid IP address format"
        ELSE IF ip.is_private THEN "Access to private IP addresses is not allowed"
        ELSE IF ip.is_loopback THEN "Access to loopback addresses is not allowed"
        ELSE IF ip.is_link_local THEN "Access to link-local addresses is not allowed"
        ELSE IF ip.is_multicast THEN "Access to multicast addresses is not allowed"
        ELSE IF ip_str \in cloud_metadata_ips
             THEN "Access to cloud metadata endpoints is not allowed"
        ELSE "ok"

\* check_ips looking at addr_info[0] only
check_ips_first_only(ips) == IF ips = <<>> THEN "ok" ELSE check_ip(Head(ips))

\* `for ip_str in ips`: the first address that raises decides
check_ips(ips) ==
    LET raising == {i \in 1..Len(ips) : check_ip(ips[i]) # "ok"}
    IN  IF raising = {} THEN "ok" ELSE check_ip(ips[MinOf(raising)])

\* actual_url of validate_remote_url and of add_remote_layer
strip_csv_prefix(url) == Replace(url, CSV_VSICURL, <<>>)

\* the format checks made before the hostname is resolved: the detail raised, or "ok"
check_format(url, source_type) ==
    LET actual_url == IF source_type = "sheets" THEN strip_csv_prefix(url) ELSE url
        parsed     == urlparse(actual_url)
    IN  IF source_type = "sheets" /\ ~StartsWith(url, CSV_VSICURL)
        THEN "Google Sheets URLs must use CSV:/vsicurl/https://... format"
        ELSE IF ~(StartsWith(actual_url, HTTP_SCHEME) \/ StartsWith(actual_url, HTTPS_SCHEME))
        THEN "URL must start with http:// or https://"
        ELSE IF parsed.raises THEN "Invalid URL format"
        ELSE IF hostname_of(parsed.netloc) = <<>> THEN "Invalid URL: missing hostname"
        ELSE "ok"

\* the rest of validate_remote_url once the format checks gave format: the hostname is
\* resolved only if they raised nothing
validate_resolved(format, answer) ==
    IF format # "ok" THEN Raise400(format, FALSE)
    ELSE IF answer.kind = "gaierror" THEN Raise400("Cannot resolve hostname", TRUE)
    ELSE IF answer.kind = "error" THEN Raise400("Invalid URL format", TRUE)
    ELSE IF check_ips(answer.ips) # "ok" THEN Raise400(check_ips(answer.ips), TRUE)
    ELSE Returned(TRUE)

\* validate_remote_url(url, source_type) when getaddrinfo answers answer
validate_remote_url(url, source_type, answer) ==
    validate_resolved(check_format(url, source_type), answer)

----------------------------------------------------------------------------
(* Values *)

\* Optional values: None, or a one-element sequence holding the value
None == <<>>
Some(x) == <<x>>

\* dict.update
DictUpdate(d, e) == [k \in DOMAIN d \cup DOMAIN e |-> IF k \in DOMAIN e THEN e[k] ELSE d[k]]

\* forked_map.id, and the ids generate_id() hands to the one request of a behaviour
ForkedMapId == "M1"
NewLayerId == "L1"
NewStyleId == "S1"

\* tempfile.NamedTemporaryFile(suffix=...).name
TempFileName(suffix) == <<"/", "t", "m", "p", "/", "t", "m", "p", "1">> \o suffix
TempFgbName == <<"/", "t", "m", "p", "/", "t", "m", "p", "2">> \o EXT_FGB

NoResponse == [status |-> 0, detail |-> "", id |-> "", type |-> "", url |-> "",
               dag_child_map_id |-> ""]
ErrorResponse(status, detail) == [NoResponse EXCEPT !.status = status, !.detail = detail]

----------------------------------------------------------------------------
(* The requests and collaborators of the model *)

UrlPrefixes == {<<>>, CSV_VSICURL, ESRIJSON_COLON, WFS_COLON}
UrlSchemes ==
    {HTTP_SCHEME, HTTPS_SCHEME,
     <<"f", "t", "p", ":", "/", "/">>,
     <<"f", "i", "l", "e", ":", "/", "/">>,
     <<"h", "t">> \o CSV_VSICURL \o <<"t", "p", ":", "/", "/">>}
UrlHosts == {<<"a", ".", "i", "o">>, <<>>, <<"[", "x">>}
UrlPaths ==
    {<<"/", "d">> \o EXT_GEOJSON,
     <<"/", "d">> \o EXT_FGB,
     <<"/", "d">> \o Upper(EXT_TIF),
     <<"/", "d">> \o EXT_PMTILES,
     <<"/", "d">> \o EXT_CSV,
     FEATURE_SERVER \o <<"/", "0">> \o QUERY,
     <<"/", "w", "f", "s", "?", "s", "e", "r", "v", "i", "c", "e", "=", "W", "F", "S", "&",
       "r", "e", "q", "u", "e", "s", "t", "=", "G", "e", "t", "F", "e", "a", "t", "u", "r", "e">>}

RemoteUrls ==
    {pre \o sch \o host \o path :
        pre \in UrlPrefixes, sch \in UrlSchemes, host \in UrlHosts, path \in UrlPaths}

SourceTypes == {"vector", "raster", "sheets", "tiles"}

RemoteLayerRequests ==
    [url : RemoteUrls, source_type : SourceTypes, add_layer_to_map : BOOLEAN]

NoRequest == [url |-> <<>>, source_type |-> "", add_layer_to_map |-> FALSE]

\* the coordinate reference systems a source declares: none, two with an EPSG code,
\* and one without a code whose definition names the WGS84 datum
CrsCases == {"none", "EPSG:4326", "EPSG:3857", "utm"}

EPSG_4326 == <<"E", "P", "S", "G", ":", "4", "3", "2", "6">>
WGS84 == <<"W", "G", "S", "8", "4">>

\* src_crs.to_string() / ds.GetProjection()
crs_string(crs) ==
    IF crs = "EPSG:4326" THEN EPSG_4326
    ELSE IF crs = "EPSG:3857" THEN <<"E", "P", "S", "G", ":", "3", "8", "5", "7">>
    ELSE IF crs = "utm"
    THEN <<"+", "p", "r", "o", "j", "=", "u", "t", "m", " ", "+", "d", "a", "t", "u", "m", "=">>
         \o WGS84
    ELSE <<>>

\* what fiona (or GDAL, for a raster) finds in a source: the step at which it raises,
\* the features and the number of distinct locations they occupy, the geometry type of
\* the schema and of the first feature, the declared CRS and the units of the coordinates
Sources ==
    [fails : {"none", "open", "first_feature", "transform"},
     feature_count : 0..MaxFeatures, distinct_locations : 0..MaxFeatures,
     schema_geometry : {"none", "unknown", "point"}, first_geometry : {"null", "point"},
     crs : CrsCases, units : {"degrees", "metres"}]

\* the sources that exist: the locations are at most the features and at least one if
\* there is a feature; an EPSG:4326 source is in degrees and a projected one in metres
ConsistentSource(src) ==
    /\ src.distinct_locations <= src.feature_count
    /\ (src.feature_count > 0 => src.distinct_locations > 0)
    /\ (src.crs = "EPSG:4326" => src.units = "degrees")
    /\ (src.crs \in {"EPSG:3857", "utm"} => src.units = "metres")

PlainPoints(src) ==
    /\ src.schema_geometry = "point" /\ src.first_geometry = "point"
    /\ src.feature_count = 1

\* the vector sources of the model: every shape of content in EPSG:4326, and one point
\* layer for every other CRS and for every step that raises
VectorSources ==
    {src \in Sources :
        /\ ConsistentSource(src)
        /\ \/ (src.fails = "none" /\ src.crs = "EPSG:4326")
           \/ (src.fails = "none" /\ PlainPoints(src))
           \/ (src.fails \in {"open", "first_feature"} /\ PlainPoints(src)
               /\ src.crs = "EPSG:4326")
           \/ (src.fails = "transform" /\ PlainPoints(src) /\ src.crs = "EPSG:3857")}

\* the raster sources of the model: gdal.Open gives a dataset or None
RasterSources ==
    {src \in Sources :
        /\ ConsistentSource(src)
        /\ src.fails \in {"none", "open"}
        /\ src.feature_count = 0 /\ src.schema_geometry = "none"
        /\ src.first_geometry = "null"
        /\ (src.fails = "open" => src.crs = "EPSG:4326")}

NoDataset ==
    [fails |-> "unread", feature_count |-> 0, distinct_locations |-> 0,
     schema_geometry |-> "none", first_geometry |-> "null", crs |-> "none",
     units |-> "degrees"]

\* exit codes of an external tool
ExitCodes == {0, 1}

----------------------------------------------------------------------------
(* State after start-up: the forked map exists and holds one earlier layer *)

InitLocal ==
    [layer_type |-> "", file_ext |-> <<>>, file_size_bytes |-> 0, layer_id |-> "",
     ogr_source |-> <<>>, temp_file_path |-> None, auxiliary_temp_file_path |-> None,
     metadata_dict |-> <<>>, bounds |-> None, geometry_type |-> "unknown",
     feature_count |-> None, s3_key |-> None, temp_file |-> None, temp_dir |-> None]

NoFile ==
    [filename |-> <<>>, add_layer_to_map |-> FALSE, header |-> <<>>, sublayers |-> 0,
     has_crs |-> FALSE]

Init ==
    /\ pc = "idle"
    /\ request = NoRequest
    /\ file = NoFile
    /\ dns = NoDns
    /\ validated = FALSE
    /\ benign = TRUE
    /\ local = InitLocal
    /\ disk = {}
    /\ net = <<>>
    /\ dataset = NoDataset
    /\ tools = <<>>
    /\ s3 = {}
    /\ map_layers = <<>>
    /\ user_mundiai_maps = (ForkedMapId :> [layers |-> <<"L0">>])
    /\ layer_styles = {}
    /\ response = NoResponse

----------------------------------------------------------------------------
(* get_layer_bounds_and_metadata, generate_pmtiles_from_ogr_source,        *)
(* process_vector_layer_common                                             *)

\* collection.bounds / the corners of the geotransform, in the units of the source
native_bounds(src) ==
    IF src.units = "degrees" THEN <<0, 0, 1, 1>> ELSE <<500000, 0, 600000, 100000>>

\* Transformer.from_crs(src_crs, "EPSG:4326", always_xy=True).transform(x, y)
transform(crs, x, y) ==
    IF crs = "EPSG:4326" THEN <<x, y>> ELSE <<x \div 100000, y \div 100000>>

\* "if "EPSG:4326" not in crs_string and "WGS84" not in crs_string": whether the bounds
\* of a source with this CRS are transformed
transforms(crs) ==
    /\ crs # "none"
    /\ ~Contains(crs_string(crs), EPSG_4326)
    /\ ~Contains(crs_string(crs), WGS84)

\* "Transform bounds if not already EPSG:4326"
wgs84_bounds(crs, bounds) ==
    IF transforms(crs)
    THEN transform(crs, bounds[1], bounds[2]) \o transform(crs, bounds[3], bounds[4])
    ELSE bounds

\* src_crs.to_epsg() / src_srs.GetAuthorityCode(None)
to_epsg(crs) ==
    IF crs = "EPSG:4326" THEN Some(4326) ELSE IF crs = "EPSG:3857" THEN Some(3857) ELSE None

\* get_layer_bounds_and_metadata(ogr_source, "vector") on a source src: the locals as
\* they stand when the function returns, after the try block ended or an exception
\* left it
get_layer_bounds_and_metadata(src) ==
    LET schema_type == IF src.schema_geometry = "none" THEN "unknown" ELSE src.schema_geometry
        reads_first == src.schema_geometry # "none" /\ src.feature_count > 0
        geometry_type == IF reads_first /\ src.first_geometry # "null"
                         THEN src.first_geometry ELSE schema_type
        counted == [feature_count |-> src.feature_count]
        typed == IF geometry_type # "unknown"
                 THEN DictUpdate(counted, [geometry_type |-> geometry_type])
                 ELSE counted
        coded == IF to_epsg(src.crs) # None
                 THEN DictUpdate(typed, [original_srid |-> to_epsg(src.crs)[1]])
                 ELSE typed
    IN  IF src.fails = "open"
        THEN [bounds |-> None, geometry_type |-> "unknown", feature_count |-> None,
              metadata_updates |-> <<>>]
        ELSE IF src.fails = "first_feature" /\ reads_first
        THEN [bounds |-> Some(native_bounds(src)), geometry_type |-> schema_type,
              feature_count |-> Some(src.feature_count), metadata_updates |-> counted]
        ELSE IF src.fails = "transform" /\ transforms(src.crs)
        THEN [bounds |-> Some(native_bounds(src)), geometry_type |-> geometry_type,
              feature_count |-> Some(src.feature_count), metadata_updates |-> coded]
        ELSE [bounds |-> Some(wgs84_bounds(src.crs, native_bounds(src))),
              geometry_type |-> geometry_type,
              feature_count |-> Some(src.feature_count),
              metadata_updates |-> coded]

\* get_layer_bounds_and_metadata(ogr_source, "raster") on a source src
raster_bounds_and_metadata(src) ==
    IF src.fails = "open"
    THEN [bounds |-> None, geometry_type |-> "unknown", feature_count |-> None,
          metadata_updates |-> <<>>]
    ELSE [bounds |-> Some(wgs84_bounds(src.crs, native_bounds(src))),
          geometry_type |-> "unknown", feature_count |-> None,
          metadata_updates |-> IF to_epsg(src.crs) # None
                               THEN [original_srid |-> to_epsg(src.crs)[1]]
                               ELSE <<>>]

\* the object key generate_pmtiles_from_ogr_source uploads to
PmtilesKey(layer_id) == <<"pmtiles", layer_id>>

\* the tippecanoe command line generate_pmtiles_from_ogr_source builds
tippecanoe_cmd(feature_count) == IF feature_count > 1 THEN "tippecanoe -zg" ELSE "tippecanoe"

\* one run of an external tool
Ran(cmd, rc) == [cmd |-> cmd, rc |-> rc]

\* the exit code of tippecanoe: with -zg it gives up ("Can't guess maxzoom (-zg) without
\* at least two distinct feature locations") on features that occupy fewer than two
\* locations, otherwise it exits with rc
tippecanoe_exit(cmd, distinct_locations, rc) ==
    IF cmd = "tippecanoe -zg" /\ distinct_locations < 2 THEN 1 ELSE rc

\* generate_pmtiles_from_ogr_source on a source whose features occupy distinct_locations
\* locations: the tools it runs and whether it raises, when ogr2ogr exits with
\* reproject_rc, tippecanoe with tippecanoe_rc and the upload succeeds or not
generate_pmtiles_from_ogr_source(layer_id, feature_count, distinct_locations, reproject_rc, tippecanoe_rc, upload_ok) ==
    LET cmd == tippecanoe_cmd(feature_count)
        rc == tippecanoe_exit(cmd, distinct_locations, tippecanoe_rc)
    IN  IF reproject_rc # 0
        THEN [raised |-> TRUE, ran |-> <<Ran("ogr2ogr", reproject_rc)>>, uploaded |-> {}]
        ELSE IF rc # 0
        THEN [raised |-> TRUE, ran |-> <<Ran("ogr2ogr", 0), Ran(cmd, rc)>>, uploaded |-> {}]
        ELSE IF ~upload_ok
        THEN [raised |-> TRUE, ran |-> <<Ran("ogr2ogr", 0), Ran(cmd, 0)>>, uploaded |-> {}]
        ELSE [raised |-> FALSE, ran |-> <<Ran("ogr2ogr", 0), Ran(cmd, 0)>>,
              uploaded |-> {PmtilesKey(layer_id)}]

\* the UPDATE map_layers SET metadata = ... WHERE layer_id = ... that attaches the key
attach_pmtiles_key(rows, layer_id) ==
    IF layer_id \in DOMAIN rows
    THEN [rows EXCEPT ![layer_id].metadata =
              DictUpdate(@, [pmtiles_key |-> PmtilesKey(layer_id)])]
    ELSE rows

\* "source" of process_vector_layer_common's base metadata
source_of(ogr_source) == IF ~StartsWith(ogr_source, <<"/">>) THEN "remote" ELSE "upload"

\* process_vector_layer_common: its result, given the extracted layer_info and the
\* outcome pm of the tile build (not run when there are no features)
process_vector_layer_common(ogr_source, layer_info, pm) ==
    LET base == DictUpdate(layer_info.metadata_updates,
                           [source |-> source_of(ogr_source), layer_name |-> "name"])
        tiled == layer_info.feature_count # None /\ layer_info.feature_count[1] > 0
    IN  [bounds |-> layer_info.bounds,
         geometry_type |-> layer_info.geometry_type,
         feature_count |-> layer_info.feature_count,
         metadata |-> IF tiled /\ ~pm.raised
                      THEN DictUpdate(base, [pmtiles_key |-> CHOOSE k \in pm.uploaded : TRUE])
                      ELSE base,
         ran |-> IF tiled THEN pm.ran ELSE <<>>,
         uploaded |-> IF tiled THEN pm.uploaded ELSE {}]

----------------------------------------------------------------------------
(* add_remote_layer *)

is_csv(url) == StartsWith(url, CSV_COLON)
is_wfs(url) == Contains(Upper(url), SERVICE_WFS) /\ Contains(Upper(url), REQUEST_GETFEATURE)
is_esri(url) == (Contains(url, FEATURE_SERVER) \/ Contains(url, MAP_SERVER)) /\ Contains(url, QUERY)

\* "Assert URL format matches the declared source type": the detail raised, or "ok"
check_source_type(url, source_type) ==
    IF source_type = "sheets"
    THEN (IF StartsWith(url, CSV_COLON) THEN "ok" ELSE "AssertionError")
    ELSE IF source_type = "vector"
    THEN (IF StartsWith(url, WFS_COLON) \/ StartsWith(url, HTTP)
          THEN "ok" ELSE "Invalid vector source URL format")
    ELSE IF source_type = "raster"
    THEN (IF StartsWith(url, HTTP) THEN "ok" ELSE "Raster sources must be HTTP URLs")
    ELSE "Unsupported source type"

\* "Determine file type from URL"
guess_layer_type(url, source_type) ==
    IF is_csv(url) THEN "vector"
    ELSE IF Lower(PathSuffix(urlparse(url).path)) \in RasterExtensions THEN "raster"
    ELSE "vector"

\* add_remote_layer without the call of validate_remote_url deciding anything
proceeds_unvalidated(v, st) == st = "ok"

\* the handler goes on to the fetch only if validate_remote_url returned and the
\* source type check raised nothing: an HTTPException ends the request
proceeds(v, st) == ~v.raised /\ st = "ok"

\* a client is served: the request body names the remote source
ReceiveRemote ==
    /\ pc = "idle"
    /\ \E r \in RemoteLayerRequests : request' = r
    /\ pc' = "add_remote_layer"
    /\ UNCHANGED <<file, dns, validated, dataset, benign, local, disk, net, tools, s3,
                   map_layers, user_mundiai_maps, layer_styles, response>>

\* validate_remote_url(request.url, request.source_type), the source type check and
\* the layer type guess: everything before the first network request
RemoteValidate ==
    /\ pc = "add_remote_layer"
    /\ \E format \in {check_format(request.url, request.source_type)},
          st \in {check_source_type(request.url, request.source_type)},
          layer_type \in {guess_layer_type(request.url, request.source_type)} :
       \E answer \in (IF format = "ok" THEN DnsAnswers ELSE {NoDns}) :
       \E v \in {validate_resolved(format, answer)} :
            /\ dns' = IF v.resolved THEN answer ELSE NoDns
            /\ validated' = ~v.raised
            /\ benign' = (benign /\ (v.resolved => ~v.raised))
            /\ pc' = IF proceeds(v, st) THEN "remote_fetch" ELSE "done"
            /\ response' = IF proceeds(v, st) THEN response
                           ELSE IF v.raised THEN ErrorResponse(v.status_code, v.detail)
                           ELSE ErrorResponse(IF st = "AssertionError" THEN 500 ELSE 400, st)
            /\ local' = IF proceeds(v, st)
                        THEN [local EXCEPT !.layer_type = layer_type]
                        ELSE local
    /\ UNCHANGED <<request, file, disk, net, dataset, tools, s3, map_layers,
                   user_mundiai_maps, layer_styles>>

\* what the HEAD probe of a CSV source answers: an exception, or a content-length
HeadOutcomes == {"error", "0", "2048"}
\* what the GET download answers: an exception, or a response status
GetOutcomes == {"error", "200", "404"}

\* file_size_bytes after the HEAD probe
head_file_size(outcome) == IF outcome = "2048" THEN 2048 ELSE 1000

\* "Handle file processing differently for CSV sources vs downloaded files":
\* file_ext, ogr_source and the temporary file written
prepare_source(url) ==
    IF is_csv(url)
    THEN [file_ext |-> EXT_CSV, ogr_source |-> url, temp_file_path |-> None]
    ELSE IF is_wfs(url)
    THEN [file_ext |-> EXT_GML, ogr_source |-> url, temp_file_path |-> None]
    ELSE IF is_esri(url)
    THEN [file_ext |-> EXT_GEOJSON, ogr_source |-> ESRIJSON_COLON \o url,
          temp_file_path |-> None]
    ELSE [file_ext |-> SplitExt(urlparse(url).path),
          ogr_source |-> TempFileName(SplitExt(urlparse(url).path)),
          temp_file_path |-> TempFileName(SplitExt(urlparse(url).path))]

Prepared(size) ==
    LET src == prepare_source(request.url)
    IN  [local EXCEPT !.file_size_bytes = size, !.layer_id = NewLayerId,
                      !.file_ext = src.file_ext, !.ogr_source = src.ogr_source,
                      !.temp_file_path = src.temp_file_path]

\* the HEAD probe or the GET download, then the choice of the OGR source
RemoteFetch ==
    /\ pc = "remote_fetch"
    /\ IF is_csv(request.url)
       THEN \E head \in HeadOutcomes :
            /\ net' = Append(net, [method |-> "HEAD", url |-> strip_csv_prefix(request.url)])
            /\ benign' = (benign /\ head # "error")
            /\ local' = Prepared(head_file_size(head))
            /\ pc' = "remote_convert"
            /\ UNCHANGED <<disk, response>>
       ELSE IF is_wfs(request.url)
       THEN /\ local' = Prepared(10000)
            /\ pc' = "remote_convert"
            /\ UNCHANGED <<net, benign, disk, response>>
       ELSE \E get \in GetOutcomes :
            /\ net' = Append(net, [method |-> "GET", url |-> request.url])
            /\ benign' = (benign /\ get = "200")
            /\ IF get = "200"
               THEN /\ local' = Prepared(2048)
                    /\ disk' = disk \cup (IF Prepared(2048).temp_file_path = None THEN {}
                                          ELSE {Prepared(2048).temp_file_path})
                    /\ pc' = "remote_convert"
                    /\ UNCHANGED response
               ELSE /\ response' = IF get = "404"
                                   THEN ErrorResponse(400, "Unable to download remote file")
                                   ELSE ErrorResponse(500, "Internal Server Error")
                    /\ pc' = "done"
                    /\ UNCHANGED <<local, disk>>
    /\ UNCHANGED <<request, file, dns, validated, dataset, tools, s3, map_layers,
                   user_mundiai_maps, layer_styles>>

\* fiona and ogr2ogr read the source over the network unless it is the downloaded file
ogr_open(source, temp_file_path) ==
    IF temp_file_path = None THEN <<[method |-> "OGR", url |-> source]>> ELSE <<>>

\* "Convert non-FlatGeobuf vector formats to FlatGeobuf": for a vector layer that is
\* not .fgb, ogr2ogr writes a new temporary .fgb file; every other layer leaves the
\* block, and with it the processing and the database writes, out
RemoteConvert ==
    /\ pc = "remote_convert"
    /\ IF local.layer_type = "vector" /\ local.file_ext # EXT_FGB
       THEN \E rc \in ExitCodes :
            /\ net' = net \o ogr_open(local.ogr_source, local.temp_file_path)
            /\ tools' = Append(tools, Ran("ogr2ogr", rc))
            /\ benign' = (benign /\ rc = 0)
            /\ IF rc = 0
               THEN /\ disk' = disk \cup {TempFgbName}
                    /\ local' = [local EXCEPT !.auxiliary_temp_file_path = TempFgbName,
                                              !.temp_file_path = TempFgbName,
                                              !.ogr_source = TempFgbName,
                                              !.file_ext = EXT_FGB]
                    /\ pc' = "remote_process"
                    /\ UNCHANGED response
               ELSE /\ local' = [local EXCEPT !.auxiliary_temp_file_path = TempFgbName]
                    /\ response' = ErrorResponse(400,
                           "Failed to convert remote file to optimized format")
                    /\ pc' = "done"
                    /\ UNCHANGED disk
       ELSE /\ pc' = "remote_respond"
            /\ UNCHANGED <<net, tools, benign, disk, local, response>>
    /\ UNCHANGED <<request, file, dns, validated, dataset, s3, map_layers,
                   user_mundiai_maps, layer_styles>>

\* the metadata dictionary add_remote_layer initialises
remote_metadata(url, file_ext) ==
    IF is_csv(url)
    THEN [original_url |-> url, source |-> "remote",
          original_filename |-> "Google Sheets CSV Export",
          google_sheets_url |-> strip_csv_prefix(url)]
    ELSE [original_url |-> url, source |-> "remote",
          original_filename |->
              IF PathName(urlparse(url).path) # <<>>
              THEN PathName(urlparse(url).path)
              ELSE <<"r", "e", "m", "o", "t", "e", "_", "f", "i", "l", "e">> \o file_ext]

\* metadata_dict, bounds, geometry_type and feature_count after "Process layer based
\* on type using shared utilities"
processed(url, layer_type, file_ext, processing_source, layer_info, pm) ==
    LET layer_result == process_vector_layer_common(processing_source, layer_info, pm)
    IN  IF layer_type = "vector"
        THEN [metadata_dict |-> layer_result.metadata,
              bounds |-> layer_result.bounds,
              geometry_type |-> layer_result.geometry_type,
              feature_count |-> layer_result.feature_count,
              ran |-> layer_result.ran, uploaded |-> layer_result.uploaded]
        ELSE [metadata_dict |-> DictUpdate(remote_metadata(url, file_ext),
                                           layer_info.metadata_updates),
              bounds |-> layer_info.bounds,
              geometry_type |-> "raster",
              feature_count |-> None,
              ran |-> <<>>, uploaded |-> {}]

\* the processing of the converted file: metadata extraction and the tile build
RemoteProcess ==
    /\ pc = "remote_process"
    /\ \E src \in (IF local.layer_type = "vector" THEN VectorSources ELSE RasterSources),
          reproject_rc \in ExitCodes, tippecanoe_rc \in ExitCodes, upload_ok \in BOOLEAN :
        LET layer_info == IF local.layer_type = "vector"
                          THEN get_layer_bounds_and_metadata(src)
                          ELSE raster_bounds_and_metadata(src)
            pm == generate_pmtiles_from_ogr_source(local.layer_id, src.feature_count,
                      src.distinct_locations, reproject_rc, tippecanoe_rc, upload_ok)
            processing_source == IF local.temp_file_path # None
                                 THEN local.temp_file_path ELSE local.ogr_source
            out == processed(request.url, local.layer_type, local.file_ext,
                             processing_source, layer_info, pm)
        IN  /\ dataset' = src
            /\ local' = [local EXCEPT !.metadata_dict = out.metadata_dict,
                                      !.bounds = out.bounds,
                                      !.geometry_type = out.geometry_type,
                                      !.feature_count = out.feature_count]
            /\ tools' = tools \o out.ran
            /\ s3' = s3 \cup out.uploaded
            /\ map_layers' = IF out.uploaded # {}
                             THEN attach_pmtiles_key(map_layers, local.layer_id)
                             ELSE map_layers
            /\ benign' = (benign /\ src.fails = "none"
                                 /\ (local.layer_type = "vector" =>
                                        /\ src.feature_count > 0
                                        /\ src.schema_geometry = "point"
                                        /\ src.first_geometry = "point"
                                        /\ out.uploaded # {}))
    /\ pc' = "remote_persist"
    /\ UNCHANGED <<request, file, dns, validated, disk, net, user_mundiai_maps,
                   layer_styles, response>>

\* the row add_remote_layer inserts into map_layers
remote_row(req, l) ==
    [type |-> l.layer_type, metadata |-> l.metadata_dict, bounds |-> l.bounds,
     geometry_type |-> IF l.layer_type = "vector" THEN Some(l.geometry_type) ELSE None,
     feature_count |-> l.feature_count, size_bytes |-> l.file_size_bytes,
     source_map_id |-> ForkedMapId, s3_key |-> None, remote_url |-> req.url]

\* "Insert remote layer into database", the style rows, "Add to map if requested",
\* and the finally block that unlinks the temporary files
RemotePersist ==
    /\ pc = "remote_persist"
    /\ map_layers' = (local.layer_id :> remote_row(request, local)) @@ map_layers
    /\ layer_styles' = IF local.layer_type = "vector" /\ local.geometry_type # "unknown"
                       THEN layer_styles \cup {<<NewStyleId, local.layer_id>>}
                       ELSE layer_styles
    /\ user_mundiai_maps' =
           IF request.add_layer_to_map
           THEN [user_mundiai_maps EXCEPT ![ForkedMapId].layers = Append(@, local.layer_id)]
           ELSE user_mundiai_maps
    /\ disk' = disk \ {local.temp_file_path, local.auxiliary_temp_file_path}
    /\ pc' = "remote_respond"
    /\ UNCHANGED <<request, file, dns, validated, dataset, benign, local, net, tools,
                   s3, response>>

\* "Create layer URL" and the LayerUploadResponse
RemoteRespond ==
    /\ pc = "remote_respond"
    /\ response' = [status |-> 200, detail |-> "", id |-> local.layer_id,
                    type |-> local.layer_type,
                    url |-> IF local.layer_type = "vector" THEN "pmtiles" ELSE "cog.tif",
                    dag_child_map_id |-> ForkedMapId]
    /\ pc' = "done"
    /\ UNCHANGED <<request, file, dns, validated, dataset, benign, local, disk, net,
                   tools, s3, map_layers, user_mundiai_maps, layer_styles>>

----------------------------------------------------------------------------
(* internal_upload_layer, called by upload_layer *)

UploadFilenames ==
    {<<"d">> \o e : e \in {EXT_GEOJSON, EXT_FGB, Upper(EXT_CSV), EXT_KML, EXT_KMZ, EXT_ZIP,
                          EXT_TIF, EXT_LAZ, <<>>}}

\* the fields csv.reader finds in the first row of an uploaded CSV
HeaderNames ==
    {<<" ", "L", "o", "n", " ">>, <<"L", "A", "T">>, <<"x">>, <<"Y", " ">>,
     <<"n", "a", "m", "e">>}
Headers == UNION {[1..n -> HeaderNames] : n \in 0..MaxHeader}

\* an uploaded file: its name and, as far as the handler or the tools read them, its
\* content: the header row of a CSV, the number of sublayers of a KML or KMZ and whether
\* the header of a LAS or LAZ file embeds a CRS
UploadFiles ==
    {f \in [filename : UploadFilenames, add_layer_to_map : BOOLEAN, header : Headers,
             sublayers : 1..MaxSublayers, has_crs : BOOLEAN] :
          /\ (Lower(SplitExt(f.filename)) # EXT_CSV => f.header = <<>>)
          /\ (Lower(SplitExt(f.filename)) \notin {EXT_KML, EXT_KMZ} => f.sublayers = 1)
          /\ (Lower(SplitExt(f.filename)) \notin {EXT_LAS, EXT_LAZ} => f.has_crs)}

\* column names of the header check
X_NAMES == <<<<"l", "o", "n">>, <<"l", "o", "n", "g">>,
             <<"l", "o", "n", "g", "i", "t", "u", "d", "e">>, <<"l", "n", "g">>, <<"x">>>>
Y_NAMES == <<<<"l", "a", "t">>, <<"l", "a", "t", "i", "t", "u", "d", "e">>, <<"y">>>>

\* the header dictionary keyed by the names as they are written
normalized_verbatim(header) ==
    [k \in {header[i] : i \in 1..Len(header)} |->
        header[MaxOf({i \in 1..Len(header) : header[i] = k})]]

\* normalized = {h.strip().lower(): h for h in next(reader, [])}: a later column
\* replaces an earlier one with the same key
normalized(header) ==
    [k \in {Lower(Strip(header[i])) : i \in 1..Len(header)} |->
        header[MaxOf({i \in 1..Len(header) : Lower(Strip(header[i])) = k})]]

\* next((normalized[col] for col in names if col in normalized), None)
detected(names, header) ==
    LET found == {j \in 1..Len(names) : names[j] \in DOMAIN normalized(header)}
    IN  IF found = {} THEN None ELSE Some(normalized(header)[names[MinOf(found)]])

\* `not detected`: None and the empty string are false
falsy(d) == d = None \/ d[1] = <<>>

\* `if not detected_x or not detected_y: raise HTTPException(400)`
header_rejected(header) == falsy(detected(X_NAMES, header)) \/ falsy(detected(Y_NAMES, header))

\* what the collaborators of the normalisation step answer: the exit code of ogr2ogr,
\* the archive helpers (process_kmz_to_kml, process_zip_with_shapefile), las2las64 and
\* lasinfo64
NormalizeOutcomes ==
    [rc : ExitCodes,
     archive : {"ok", "ValueError", "Exception"},
     las2las_rc : ExitCodes, las_written : BOOLEAN,
     lasinfo_rc : ExitCodes]

\* a validation that accepts whatever lasinfo64 reports
lasinfo_unchecked(returncode) == FALSE

\* `if lasinfo_process.returncode != 0: raise Exception("Output file validation failed")`
lasinfo_failed(returncode) == returncode # 0

\* "Determine layer type based on file extension"
upload_layer_type(file_ext) ==
    IF file_ext \in RasterExtensions THEN "raster"
    ELSE IF file_ext \in {EXT_LAS, EXT_LAZ} THEN "point_cloud"
    ELSE "vector"

UploadTempName(file_ext) == <<"/", "t", "m", "p", "/", "t", "m", "p", "1">> \o file_ext
TempDirName == <<"/", "t", "m", "p", "/", "d", "i", "r", "1">>

\* the s3 key of the uploaded file
UploadKey(layer_id, file_ext) == <<"uploads", layer_id, file_ext>>

\* the normalisation of the uploaded file, by extension: the HTTP error raised (status 0
\* if none), the tools run, and the locals and temporary files it leaves
normalize_upload(f, o) ==
    LET filename == f.filename
        file_ext == Lower(SplitExt(filename))
        temp_file == UploadTempName(file_ext)
        fgb == temp_file \o EXT_FGB
        laz == TempDirName \o <<"/", "4", "3", "2", "6">> \o EXT_LAZ
        base == [status |-> 0, detail |-> "", ran |-> <<>>, made |-> {},
                 file_ext |-> file_ext, layer_type |-> upload_layer_type(file_ext),
                 temp_file_path |-> temp_file, auxiliary_temp_file_path |-> None,
                 temp_dir |-> None, metadata_dict |-> [original_filename |-> filename],
                 s3_ext |-> IF file_ext = <<>> THEN EXT_GEOJSON ELSE file_ext]
        converted(fmt, ran, made) ==
            [base EXCEPT !.ran = ran, !.made = made \cup {fgb}, !.file_ext = EXT_FGB,
                         !.s3_ext = EXT_FGB, !.temp_file_path = fgb,
                         !.auxiliary_temp_file_path = fgb,
                         !.metadata_dict = DictUpdate(@, [original_format |-> fmt])]
        failed(status, detail, ran, made) ==
            [base EXCEPT !.status = status, !.detail = detail, !.ran = ran, !.made = made]
    IN  IF file_ext = EXT_CSV
        THEN (IF header_rejected(f.header)
              THEN failed(400, "CSV header must include longitude and latitude columns",
                          <<>>, {})
              ELSE IF o.rc # 0
              THEN failed(400, "Failed to convert CSV to spatial format",
                          <<Ran("ogr2ogr", o.rc)>>, {})
              ELSE converted("csv", <<Ran("ogr2ogr", 0)>>, {}))
        ELSE IF file_ext \in {EXT_KML, EXT_KMZ}
        THEN (IF file_ext = EXT_KMZ /\ o.archive = "ValueError"
              THEN failed(400, "KMZ file does not contain any KML files", <<>>, {})
              ELSE IF file_ext = EXT_KMZ /\ o.archive = "Exception"
              THEN failed(500, "Error processing KMZ file", <<>>, {})
              ELSE IF o.rc # 0
              THEN failed(400, "Failed to convert KML/KMZ to spatial format",
                          <<Ran("ogr2ogr", o.rc)>>, {})
              ELSE converted("kmz", <<Ran("ogr2ogr", 0)>>, {}))
        ELSE IF file_ext = EXT_ZIP
        THEN (IF o.archive = "ValueError"
              THEN failed(400, "ZIP file does not contain any shapefiles", <<>>, {})
              ELSE IF o.archive = "Exception"
              THEN failed(500, "Error processing ZIP file", <<>>, {})
              ELSE [base EXCEPT !.made = {TempDirName}, !.temp_dir = TempDirName,
                                !.temp_file_path = TempDirName \o <<"/", "d">> \o EXT_GPKG,
                                !.file_ext = EXT_GPKG, !.s3_ext = EXT_GPKG,
                                !.layer_type = "vector",
                                !.metadata_dict = DictUpdate(@,
                                    [original_format |-> "shapefile_zip",
                                     converted_to |-> "gpkg"])])
        ELSE IF upload_layer_type(file_ext) = "point_cloud"
        THEN (IF ~f.has_crs
              THEN failed(400, "Point cloud file (.las, .laz) does not have a CRS", <<>>, {})
              ELSE IF ~o.las_written
              THEN failed(500, "las2las did not create output file",
                          <<Ran("las2las64", o.las2las_rc)>>, {TempDirName})
              ELSE IF lasinfo_failed(o.lasinfo_rc)
              THEN failed(500, "Output file validation failed",
                          <<Ran("las2las64", o.las2las_rc), Ran("lasinfo64", o.lasinfo_rc)>>,
                          {TempDirName, laz})
              ELSE [base EXCEPT !.ran = <<Ran("las2las64", o.las2las_rc),
                                          Ran("lasinfo64", o.lasinfo_rc)>>,
                                !.made = {TempDirName, laz}, !.temp_dir = TempDirName,
                                !.temp_file_path = laz, !.auxiliary_temp_file_path = laz,
                                !.metadata_dict = DictUpdate(@,
                                    [pointcloud_anchor |-> "lonlat",
                                     pointcloud_z_range |-> "z"])])
        ELSE base

\* the upload route hands the file to internal_upload_layer
ReceiveUpload ==
    /\ pc = "idle"
    /\ \E f \in UploadFiles : file' = f
    /\ pc' = "internal_upload_layer"
    /\ UNCHANGED <<request, dns, validated, dataset, benign, local, disk, net, tools,
                   s3, map_layers, user_mundiai_maps, layer_styles, response>>

\* from the entry to the call of s3_client.upload_file: the temporary copy and the
\* conversion of csv, kml/kmz, zip and point cloud files
UploadNormalize ==
    /\ pc = "internal_upload_layer"
    /\ \E o \in NormalizeOutcomes :
        \E n \in {normalize_upload(file, o)} :
            /\ tools' = tools \o n.ran
            /\ benign' = (benign /\ n.status = 0)
            /\ IF n.status # 0
               THEN /\ response' = ErrorResponse(n.status, n.detail)
                    /\ disk' = disk \cup n.made
                    /\ pc' = "done"
                    /\ local' = local
               ELSE /\ local' = [local EXCEPT !.layer_id = NewLayerId,
                                    !.layer_type = n.layer_type, !.file_ext = n.file_ext,
                                    !.file_size_bytes = 2048,
                                    !.temp_file = UploadTempName(Lower(SplitExt(file.filename))),
                                    !.temp_file_path = n.temp_file_path,
                                    !.auxiliary_temp_file_path = n.auxiliary_temp_file_path,
                                    !.temp_dir = n.temp_dir,
                                    !.metadata_dict = n.metadata_dict,
                                    !.s3_key = Some(UploadKey(NewLayerId, n.s3_ext))]
                    /\ disk' = disk \cup n.made
                                    \cup {UploadTempName(Lower(SplitExt(file.filename)))}
                    /\ pc' = "upload_store"
                    /\ UNCHANGED response
    /\ UNCHANGED <<request, file, dns, validated, dataset, net, s3, map_layers,
                   user_mundiai_maps, layer_styles>>

\* s3_client.upload_file(temp_file_path, bucket_name, s3_key): an exception of the
\* object store ends the request and the with block unlinks the temporary copy
UploadStore ==
    /\ pc = "upload_store"
    /\ \E upload_ok \in BOOLEAN :
        /\ benign' = (benign /\ upload_ok)
        /\ IF upload_ok
           THEN /\ s3' = s3 \cup {local.s3_key[1]}
                /\ pc' = "upload_persist"
                /\ UNCHANGED <<disk, response>>
           ELSE /\ response' = ErrorResponse(500, "Internal Server Error")
                /\ disk' = disk \ {local.temp_file}
                /\ pc' = "done"
                /\ UNCHANGED s3
    /\ UNCHANGED <<request, file, dns, validated, dataset, local, net, tools,
                   map_layers, user_mundiai_maps, layer_styles>>

\* "Get layer bounds using GDAL": bounds, geometry_type, feature_count and metadata of
\* the uploaded layer, read from the source src
upload_layer_info(l, src) ==
    LET layer_info == get_layer_bounds_and_metadata(src)
        raster_info == raster_bounds_and_metadata(src)
    IN  IF l.layer_type = "raster"
        THEN [bounds |-> raster_info.bounds,
              geometry_type |-> "unknown", feature_count |-> None,
              metadata_dict |-> DictUpdate(l.metadata_dict, raster_info.metadata_updates)]
        ELSE IF l.layer_type = "point_cloud"
        THEN [bounds |-> Some(<<0, 0, 1, 1>>), geometry_type |-> "unknown",
              feature_count |-> None, metadata_dict |-> l.metadata_dict]
        ELSE [bounds |-> layer_info.bounds, geometry_type |-> layer_info.geometry_type,
              feature_count |-> layer_info.feature_count,
              metadata_dict |-> DictUpdate(l.metadata_dict, layer_info.metadata_updates)]

\* the row internal_upload_layer inserts into map_layers
upload_row(l, info) ==
    [type |-> l.layer_type, metadata |-> info.metadata_dict, bounds |-> info.bounds,
     geometry_type |-> IF l.layer_type = "vector" THEN Some(info.geometry_type) ELSE None,
     feature_count |-> info.feature_count, size_bytes |-> l.file_size_bytes,
     source_map_id |-> ForkedMapId, s3_key |-> l.s3_key, remote_url |-> None]

\* metadata extraction, INSERT INTO map_layers, the update of the map's layers array and
\* the default style rows
UploadPersist ==
    /\ pc = "upload_persist"
    /\ \E src \in (IF local.layer_type = "vector" THEN VectorSources
                   ELSE IF local.layer_type = "raster" THEN RasterSources
                   ELSE {NoDataset}) :
        LET info == upload_layer_info(local, src)
        IN  /\ benign' = (benign /\ src.fails \in {"none", "unread"})
            /\ dataset' = src
            /\ local' = [local EXCEPT !.bounds = info.bounds,
                                      !.geometry_type = info.geometry_type,
                                      !.feature_count = info.feature_count,
                                      !.metadata_dict = info.metadata_dict]
            /\ map_layers' = (local.layer_id :> upload_row(local, info)) @@ map_layers
            /\ user_mundiai_maps' =
                   IF file.add_layer_to_map
                   THEN [user_mundiai_maps EXCEPT
                            ![ForkedMapId].layers = Append(@, local.layer_id)]
                   ELSE user_mundiai_maps
            /\ layer_styles' = IF local.layer_type = "vector"
                               THEN layer_styles \cup {<<NewStyleId, local.layer_id>>}
                               ELSE layer_styles
    /\ pc' = "upload_tiles"
    /\ UNCHANGED <<request, file, dns, validated, net, tools, s3, disk, response>>

\* "Generate PMTiles for vector layers": only for a vector layer with features; an
\* exception of generate_pmtiles_from_ogr_source ends the request
UploadTiles ==
    /\ pc = "upload_tiles"
    /\ IF local.layer_type = "vector" /\ local.feature_count # None
          /\ local.feature_count[1] > 0
       THEN \E reproject_rc \in ExitCodes, tippecanoe_rc \in ExitCodes, upload_ok \in BOOLEAN :
            LET pm == generate_pmtiles_from_ogr_source(local.layer_id,
                          local.feature_count[1], dataset.distinct_locations,
                          reproject_rc, tippecanoe_rc, upload_ok)
            IN  /\ tools' = tools \o pm.ran
                /\ s3' = s3 \cup pm.uploaded
                /\ benign' = (benign /\ ~pm.raised)
                /\ IF pm.raised
                   THEN /\ response' = ErrorResponse(500, "Internal Server Error")
                        /\ disk' = disk \ {local.temp_file}
                        /\ pc' = "done"
                        /\ UNCHANGED map_layers
                   ELSE /\ map_layers' = attach_pmtiles_key(map_layers, local.layer_id)
                        /\ pc' = "upload_respond"
                        /\ UNCHANGED <<disk, response>>
       ELSE /\ pc' = "upload_respond"
            /\ UNCHANGED <<tools, s3, benign, map_layers, disk, response>>
    /\ UNCHANGED <<request, file, dns, validated, dataset, local, net,
                   user_mundiai_maps, layer_styles>>

\* "Cleanup temp_dir if it exists", the end of the with block, and the response that
\* upload_layer builds from the InternalLayerUploadResponse
UploadRespond ==
    /\ pc = "upload_respond"
    /\ disk' = {f \in disk : f # local.temp_file
                             /\ (local.temp_dir = None \/ ~StartsWith(f, local.temp_dir))}
    /\ response' = [status |-> 200, detail |-> "", id |-> local.layer_id,
                    type |-> local.layer_type,
                    url |-> IF local.layer_type = "vector" THEN "pmtiles" ELSE "cog.tif",
                    dag_child_map_id |-> ForkedMapId]
    /\ pc' = "done"
    /\ UNCHANGED <<request, file, dns, validated, dataset, benign, local, net, tools,
                   s3, map_layers, user_mundiai_maps, layer_styles>>

----------------------------------------------------------------------------
(* Specifications *)

Next ==
    \/ ReceiveRemote
    \/ RemoteValidate
    \/ RemoteFetch
    \/ RemoteConvert
    \/ RemoteProcess
    \/ RemotePersist
    \/ RemoteRespond
    \/ ReceiveUpload
    \/ UploadNormalize
    \/ UploadStore
    \/ UploadPersist
    \/ UploadTiles
    \/ UploadRespond

Spec == Init /\ [][Next]_vars

----------------------------------------------------------------------------
(* get_layer_cog_tif: the lazily built Cloud-Optimized GeoTIFF of a raster  *)
(* layer. Several requests for the one layer are in flight; they interleave *)
(* at the awaits of the handler (get_layer, download_file, upload_file, the *)
(* UPDATE, head_object), and the GDAL tools run by subprocess.run between    *)
(* two awaits run without interruption. In this specification pc, local and *)
(* response hold one value per request.                                     *)

\* requests for the COG of the layer
CogRequests == 1..MaxCogRequests

CogLayerId == "L1"
CogS3Key == <<"uploads", CogLayerId, EXT_TIF>>
REMOTE_TIF == <<"h", "t", "t", "p", ":", "/", "/", "a", ".", "i", "o", "/", "d">> \o EXT_TIF

\* str.endswith
EndsWith(s, suffix) ==
    /\ Len(s) >= Len(suffix)
    /\ SubSeq(s, Len(s) - Len(suffix) + 1, Len(s)) = suffix

\* the rows the layer can have before its first COG request: an uploaded raster with
\* or without single-band statistics, a raster added by URL, a vector layer
CogRows ==
    {[type |-> "raster", s3_key |-> Some(CogS3Key), remote_url |-> None,
      metadata |-> [original_filename |-> "d.tif"]],
     [type |-> "raster", s3_key |-> Some(CogS3Key), remote_url |-> None,
      metadata |-> [original_filename |-> "d.tif", raster_value_stats_b1 |-> "stats"]],
     [type |-> "raster", s3_key |-> None, remote_url |-> Some(REMOTE_TIF),
      metadata |-> [original_filename |-> "d.tif"]],
     [type |-> "vector", s3_key |-> Some(CogS3Key), remote_url |-> None,
      metadata |-> [original_filename |-> "d.tif"]]}

\* the locals of one request: the layer as get_layer loaded it, cog_key, whether the
\* key was already stored when the layer was loaded, the tools this request ran, the
\* file it repacked into the COG and whether it uploaded
CogLocal ==
    [layer |-> None, cog_key |-> None, later |-> FALSE, ran |-> <<>>,
     input_file_for_cog |-> "", rgb_input |-> "", uploaded |-> FALSE]

CogInit ==
    /\ pc = [r \in CogRequests |-> "idle"]
    /\ local = [r \in CogRequests |-> CogLocal]
    /\ response = [r \in CogRequests |-> NoResponse]
    /\ \E row \in CogRows : map_layers = (CogLayerId :> row)
    /\ s3 = {CogS3Key}
    /\ tools = <<>>
    /\ disk = {}
    /\ request = NoRequest
    /\ file = NoFile
    /\ dns = NoDns
    /\ validated = FALSE
    /\ benign = TRUE
    /\ net = <<>>
    /\ dataset = NoDataset
    /\ user_mundiai_maps = (ForkedMapId :> [layers |-> <<"L0", CogLayerId>>])
    /\ layer_styles = {}

\* the part of the state get_layer_cog_tif never touches
cog_untouched == <<request, file, dns, validated, benign, net, dataset, user_mundiai_maps,
                   layer_styles>>

\* Depends(get_layer): the row of the layer as it is when the request arrives
get_layer(rows, layer_id) == rows[layer_id]

\* layer.metadata_dict.get("cog_key")
cog_key_of(metadata) ==
    IF "cog_key" \in DOMAIN metadata THEN Some(metadata["cog_key"]) ELSE None

\* a handler that builds the COG on every request
rebuilds_always(cog_key) == TRUE

\* "If COG doesn't exist, create it": `if not cog_key:`
needs_build(cog_key) == cog_key = None

\* cog_key = f"cog/layer/{layer.layer_id}.cog.tif"
CogKey(layer_id) == <<"cog/layer/", layer_id, ".cog.tif">>

\* the temporary directory of request r
CogTempDir(r) == <<"/tmp/cog", r>>

CogFinish(r, status, detail) ==
    /\ pc' = [pc EXCEPT ![r] = "done"]
    /\ response' = [response EXCEPT ![r] = ErrorResponse(status, detail)]

\* the request arrives: get_layer, the raster check, the redirect of a remote .tif and
\* the look-up of cog_key in the metadata
CogReceive(r) ==
    /\ pc[r] = "idle"
    /\ \E layer \in {get_layer(map_layers, CogLayerId)} :
       \E cog_key \in {cog_key_of(layer.metadata)} :
          /\ local' = [local EXCEPT ![r] = [@ EXCEPT !.layer = Some(layer),
                                                      !.cog_key = cog_key,
                                                      !.later = (cog_key # None)]]
          /\ IF layer.type # "raster"
             THEN CogFinish(r, 400, "Layer is not a raster type")
             ELSE IF layer.remote_url # None /\ EndsWith(layer.remote_url[1], EXT_TIF)
             THEN /\ pc' = [pc EXCEPT ![r] = "done"]
                  /\ response' = [response EXCEPT ![r] =
                         [NoResponse EXCEPT !.status = 302, !.url = layer.remote_url[1]]]
             ELSE /\ pc' = [pc EXCEPT ![r] = IF needs_build(cog_key) THEN "download"
                                             ELSE "serve"]
                  /\ UNCHANGED response
    /\ UNCHANGED <<map_layers, s3, tools, disk>>
    /\ UNCHANGED cog_untouched

\* tempfile.TemporaryDirectory() and s3.download_file(bucket_name, s3_key, ...)
CogDownload(r) ==
    /\ pc[r] = "download"
    /\ \E ok \in BOOLEAN :
        IF ok /\ local[r].layer[1].s3_key # None /\ local[r].layer[1].s3_key[1] \in s3
        THEN /\ disk' = disk \cup {CogTempDir(r)}
             /\ pc' = [pc EXCEPT ![r] = "build"]
             /\ UNCHANGED response
        ELSE /\ CogFinish(r, 500, "Internal Server Error")
             /\ UNCHANGED disk
    /\ UNCHANGED <<local, map_layers, s3, tools>>
    /\ UNCHANGED cog_untouched

\* a build that gives up when gdalwarp fails
cog_build_strict(metadata, gdalinfo_rc, num_bands, gdalwarp_rc, rgb_rc, cog_rc) ==
    IF gdalinfo_rc # 0
    THEN [status |-> 500, detail |-> "Failed to process raster info",
          ran |-> <<Ran("gdalinfo", gdalinfo_rc)>>, input_file_for_cog |-> "", rgb_input |-> ""]
    ELSE IF gdalwarp_rc # 0
    THEN [status |-> 500, detail |-> "COG generation failed",
          ran |-> <<Ran("gdalinfo", 0), Ran("gdalwarp", gdalwarp_rc)>>,
          input_file_for_cog |-> "", rgb_input |-> ""]
    ELSE [status |-> IF cog_rc # 0 THEN 500 ELSE 0,
          detail |-> IF cog_rc # 0 THEN "COG generation failed" ELSE "",
          ran |-> <<Ran("gdalinfo", 0), Ran("gdalwarp", 0),
                    Ran("gdal_translate -of COG JPEG", cog_rc)>>,
          input_file_for_cog |-> "reprojected_file_path", rgb_input |-> ""]

\* the tools run on the downloaded file: gdalinfo, gdalwarp (its failure falls back to
\* the original file), for one band gdal_translate -expand rgb (its failure falls back
\* to the single band), and gdal_translate -of COG
cog_build(metadata, gdalinfo_rc, num_bands, gdalwarp_rc, rgb_rc, cog_rc) ==
    LET needs_color_ramp_suffix ==
            num_bands = 1 /\ rgb_rc # 0 /\ "raster_value_stats_b1" \in DOMAIN metadata
        probe == <<Ran("gdalinfo", gdalinfo_rc)>>
        warp == <<Ran("gdalwarp", gdalwarp_rc)>>
        expand == IF num_bands = 1 THEN <<Ran("gdal_translate -expand rgb", rgb_rc)>>
                  ELSE <<>>
        cog == <<Ran(IF needs_color_ramp_suffix THEN "gdal_translate -of COG LZW"
                     ELSE "gdal_translate -of COG JPEG", cog_rc)>>
        warped == IF gdalwarp_rc = 0 THEN "reprojected_file_path" ELSE "local_input_file"
        input_file_for_cog == IF num_bands = 1 /\ rgb_rc = 0 THEN "local_rgb_file"
                              ELSE warped
        \* the file rgb_cmd expands, if it runs
        rgb_input == IF num_bands = 1 THEN "local_input_file" ELSE ""
    IN  IF gdalinfo_rc # 0
        THEN [status |-> 500, detail |-> "Failed to process raster info", ran |-> probe,
              input_file_for_cog |-> "", rgb_input |-> ""]
        ELSE IF cog_rc # 0
        THEN [status |-> 500, detail |-> "COG generation failed",
              ran |-> probe \o warp \o expand \o cog,
              input_file_for_cog |-> input_file_for_cog, rgb_input |-> rgb_input]
        ELSE [status |-> 0, detail |-> "", ran |-> probe \o warp \o expand \o cog,
              input_file_for_cog |-> input_file_for_cog, rgb_input |-> rgb_input]

CogBuild(r) ==
    /\ pc[r] = "build"
    /\ \E gdalinfo_rc \in ExitCodes, num_bands \in {1, 3}, gdalwarp_rc \in ExitCodes,
          rgb_rc \in ExitCodes, cog_rc \in ExitCodes :
       \E b \in {cog_build(local[r].layer[1].metadata, gdalinfo_rc, num_bands,
                           gdalwarp_rc, rgb_rc, cog_rc)} :
          /\ tools' = tools \o b.ran
          /\ local' = [local EXCEPT ![r].ran = @ \o b.ran,
                                    ![r].input_file_for_cog = b.input_file_for_cog,
                                    ![r].rgb_input = b.rgb_input]
          /\ IF b.status # 0
             THEN /\ CogFinish(r, b.status, b.detail)
                  /\ disk' = disk \ {CogTempDir(r)}
             ELSE /\ pc' = [pc EXCEPT ![r] = "upload"]
                  /\ UNCHANGED <<disk, response>>
    /\ UNCHANGED <<map_layers, s3>>
    /\ UNCHANGED cog_untouched

\* s3.upload_file(local_cog_file, bucket_name, cog_key)
CogUpload(r) ==
    /\ pc[r] = "upload"
    /\ \E ok \in BOOLEAN :
        IF ok
        THEN /\ s3' = s3 \cup {CogKey(CogLayerId)}
             /\ local' = [local EXCEPT ![r].cog_key = Some(CogKey(CogLayerId)),
                                       ![r].uploaded = TRUE]
             /\ pc' = [pc EXCEPT ![r] = "update"]
             /\ UNCHANGED <<disk, response>>
        ELSE /\ CogFinish(r, 500, "Internal Server Error")
             /\ disk' = disk \ {CogTempDir(r)}
             /\ UNCHANGED <<s3, local>>
    /\ UNCHANGED <<map_layers, tools>>
    /\ UNCHANGED cog_untouched

\* metadata["cog_key"] = cog_key, UPDATE map_layers SET metadata = ..., and the end of
\* the TemporaryDirectory block
CogUpdate(r) ==
    /\ pc[r] = "update"
    /\ map_layers' = [map_layers EXCEPT ![CogLayerId].metadata =
                          DictUpdate(local[r].layer[1].metadata,
                                     [cog_key |-> local[r].cog_key[1]])]
    /\ disk' = disk \ {CogTempDir(r)}
    /\ pc' = [pc EXCEPT ![r] = "serve"]
    /\ UNCHANGED <<local, s3, tools, response>>
    /\ UNCHANGED cog_untouched

\* s3_client.head_object and get_object of cog_key, and the StreamingResponse
CogServe(r) ==
    /\ pc[r] = "serve"
    /\ IF local[r].cog_key[1] \in s3
       THEN /\ pc' = [pc EXCEPT ![r] = "done"]
            /\ response' = [response EXCEPT ![r] =
                   [NoResponse EXCEPT !.status = 200, !.url = local[r].cog_key[1]]]
       ELSE CogFinish(r, 500, "Internal Server Error")
    /\ UNCHANGED <<local, map_layers, s3, tools, disk>>
    /\ UNCHANGED cog_untouched

CogNext ==
    \/ \E r \in CogRequests : CogReceive(r)
    \/ \E r \in CogRequests : CogDownload(r)
    \/ \E r \in CogRequests : CogBuild(r)
    \/ \E r \in CogRequests : CogUpload(r)
    \/ \E r \in CogRequests : CogUpdate(r)
    \/ \E r \in CogRequests : CogServe(r)

SpecCog == CogInit /\ [][CogNext]_vars

----------------------------------------------------------------------------
(* get_layer_attributes: one page of the attribute table of a layer. In this *)
(* specification request holds offset and limit, dataset the layer OGR      *)
(* opened (its features are identified by their position 0..N-1) and local  *)
(* the cursor of the OGR layer and the loop variables.                      *)

\* the largest limit get_layer_attributes accepts
MAX_LIMIT == 100

AttrRequests ==
    [offset : -1..MaxOffset, limit : 0..MaxSmallLimit \cup {MAX_LIMIT, MAX_LIMIT + 1}]

AttrLayers == [feature_count : 0..MaxAttrFeatures]

AttrLocal == [cursor |-> 0, skipped |-> 0, features_data |-> <<>>, features_read |-> 0]

AttrInit ==
    /\ pc = "idle"
    /\ request \in AttrRequests
    /\ dataset \in AttrLayers
    /\ local = AttrLocal
    /\ response = NoResponse
    /\ file = NoFile
    /\ dns = NoDns
    /\ validated = FALSE
    /\ benign = TRUE
    /\ disk = {}
    /\ net = <<>>
    /\ tools = <<>>
    /\ s3 = {}
    /\ map_layers = <<>>
    /\ user_mundiai_maps = (ForkedMapId :> [layers |-> <<"L0">>])
    /\ layer_styles = {}

\* the part of the state get_layer_attributes never touches
attr_untouched ==
    <<request, dataset, file, dns, validated, benign, disk, net, tools, s3, map_layers,
      user_mundiai_maps, layer_styles>>

\* `if offset < 0`
offset_rejected(offset) == offset < 0

\* a handler that takes every limit
limit_unchecked(limit) == FALSE

\* `if limit <= 0 or limit > 100`
limit_rejected(limit) == limit <= 0 \/ limit > MAX_LIMIT

\* ogr_layer.GetNextFeature(): the feature under the cursor, or None at the end
GetNextFeature(layer, cursor) ==
    IF cursor < layer.feature_count THEN Some(cursor) ELSE None

\* the cursor after GetNextFeature
Advance(layer, cursor) == IF cursor < layer.feature_count THEN cursor + 1 ELSE cursor

\* the checks of offset and limit, ogr.Open and ResetReading
AttrReceive ==
    /\ pc = "idle"
    /\ IF offset_rejected(request.offset)
       THEN /\ response' = ErrorResponse(400, "Offset must be non-negative")
            /\ pc' = "done"
       ELSE IF limit_rejected(request.limit)
       THEN /\ response' = ErrorResponse(400, "Limit must be between 1 and 100")
            /\ pc' = "done"
       ELSE /\ pc' = "skip"
            /\ UNCHANGED response
    /\ UNCHANGED local
    /\ UNCHANGED attr_untouched

\* one iteration of `for _ in range(offset)`, or its end
AttrSkip ==
    /\ pc = "skip"
    /\ IF local.skipped < request.offset /\ GetNextFeature(dataset, local.cursor) # None
       THEN /\ local' = [local EXCEPT !.cursor = Advance(dataset, @), !.skipped = @ + 1]
            /\ UNCHANGED pc
       ELSE /\ pc' = "read"
            /\ UNCHANGED local
    /\ UNCHANGED response
    /\ UNCHANGED attr_untouched

\* one iteration of `while features_read < limit`, or its end
AttrRead ==
    /\ pc = "read"
    /\ IF local.features_read < request.limit /\ GetNextFeature(dataset, local.cursor) # None
       THEN /\ local' = [local EXCEPT
                            !.features_data =
                                Append(@, GetNextFeature(dataset, local.cursor)[1]),
                            !.cursor = Advance(dataset, @),
                            !.features_read = @ + 1]
            /\ UNCHANGED pc
       ELSE /\ pc' = "has_more"
            /\ UNCHANGED local
    /\ UNCHANGED response
    /\ UNCHANGED attr_untouched

\* has_more and the response
AttrRespond ==
    /\ pc = "has_more"
    /\ response' =
           [status |-> 200, data |-> local.features_data, offset |-> request.offset,
            limit |-> request.limit,
            has_more |-> IF local.features_read = request.limit
                         THEN GetNextFeature(dataset, local.cursor) # None
                         ELSE FALSE,
            total_count |-> dataset.feature_count]
    /\ pc' = "done"
    /\ UNCHANGED local
    /\ UNCHANGED attr_untouched

AttrNext ==
    \/ AttrReceive
    \/ AttrSkip
    \/ AttrRead
    \/ AttrRespond

SpecAttr == AttrInit /\ [][AttrNext]_vars

----------------------------------------------------------------------------
(* MapLayer.get_ogr_source *)

SLASH_VSICURL == <<"/", "v", "s", "i", "c", "u", "r", "l", "/">>

\* the OGR source string get_ogr_source yields for a layer that has a remote_url
get_ogr_source(remote_url) ==
    IF is_wfs(remote_url) THEN WFS_COLON \o remote_url
    ELSE IF StartsWith(remote_url, CSV_VSICURL) THEN remote_url
    ELSE IF is_esri(remote_url) THEN ESRIJSON_COLON \o remote_url
    ELSE SLASH_VSICURL \o remote_url

\* the branch of add_remote_layer's file processing that url takes
ingestion_family(url) ==
    \* only the generic branch writes a temporary file
    IF prepare_source(url).temp_file_path # None THEN "http"
    ELSE IF prepare_source(url).file_ext = EXT_CSV THEN "csv"
    ELSE IF prepare_source(url).file_ext = EXT_GML THEN "wfs"
    ELSE "esri"

\* the branch of get_ogr_source that remote_url takes, read off the driver prefix of
\* the string it yields
serving_family(remote_url) ==
    IF StartsWith(get_ogr_source(remote_url), WFS_COLON) THEN "wfs"
    ELSE IF StartsWith(get_ogr_source(remote_url), CSV_VSICURL) THEN "csv"
    ELSE IF StartsWith(get_ogr_source(remote_url), ESRIJSON_COLON) THEN "esri"
    ELSE "http"

----------------------------------------------------------------------------
(* Raster bounds from the geotransform: get_layer_bounds_and_metadata and   *)
(* internal_upload_layer                                                    *)

\* the collaborators a handler that only reads a dataset leaves at their start values
AtRest ==
    /\ file = NoFile
    /\ dns = NoDns
    /\ validated = FALSE
    /\ benign = TRUE
    /\ disk = {}
    /\ net = <<>>
    /\ tools = <<>>
    /\ s3 = {}
    /\ map_layers = <<>>
    /\ user_mundiai_maps = (ForkedMapId :> [layers |-> <<"L0">>])
    /\ layer_styles = {}

\* ds.GetGeoTransform(): gt[0], gt[3] the origin, gt[1], gt[2] the x terms and gt[4],
\* gt[5] the y terms of a pixel; GDAL georeferences a raster with an invertible transform
GeoTransforms ==
    {gt \in [0..5 -> -MaxPixelTerm..MaxPixelTerm] :
        /\ gt[0] \in {0, 1} /\ gt[3] \in {0, 1}
        /\ gt[1] * gt[5] - gt[2] * gt[4] # 0}

\* the rasters gdal.Open gives: geotransform, RasterXSize, RasterYSize
GtRasters == [gt : GeoTransforms, width : 1..MaxRasterSize, height : 1..MaxRasterSize]

GtInit ==
    /\ pc = "idle"
    /\ request = NoRequest
    /\ dataset \in GtRasters
    /\ local = [gt |-> <<>>, width |-> 0, height |-> 0, bounds |-> None]
    /\ response = NoResponse
    /\ AtRest

\* "Calculate corner coordinates"
corner_bounds(gt, width, height) ==
    <<gt[0],
      gt[3] + width * gt[4] + height * gt[5],
      gt[0] + width * gt[1] + height * gt[2],
      gt[3]>>

\* ds = gdal.Open(...), gt = ds.GetGeoTransform(), width and height
GtOpen ==
    /\ pc = "idle"
    /\ local' = [local EXCEPT !.gt = dataset.gt, !.width = dataset.width,
                              !.height = dataset.height]
    /\ pc' = "opened"
    /\ UNCHANGED <<response, attr_untouched>>

\* bounds = [xmin, ymin, xmax, ymax]
GtBounds ==
    /\ pc = "opened"
    /\ local' = [local EXCEPT !.bounds =
                     Some(corner_bounds(local.gt, local.width, local.height))]
    /\ pc' = "done"
    /\ UNCHANGED <<response, attr_untouched>>

GtNext == GtOpen \/ GtBounds

SpecGt == GtInit /\ [][GtNext]_vars

----------------------------------------------------------------------------
(* add_remote_layer: the addresses its network requests reach *)

\* one request for each source family: a file to download, a CSV sheet, an ESRI query
\* and a WFS request, all on the same host
NetUrls ==
    {HTTP_SCHEME \o <<"a", ".", "i", "o">> \o <<"/", "d">> \o EXT_GEOJSON,
     CSV_VSICURL \o HTTP_SCHEME \o <<"a", ".", "i", "o">> \o <<"/", "d">> \o EXT_CSV,
     HTTP_SCHEME \o <<"a", ".", "i", "o">> \o FEATURE_SERVER \o <<"/", "0">> \o QUERY}

NetRequests ==
    {r \in RemoteLayerRequests :
        r.url \in NetUrls /\ r.source_type \in {"vector", "sheets"} /\ ~r.add_layer_to_map}

NetInit ==
    /\ pc = "add_remote_layer"
    /\ request \in NetRequests
    /\ dataset = NoDataset
    /\ local = InitLocal
    /\ response = NoResponse
    /\ AtRest

\* addresses inside the deployment: the loopback interface and the metadata service
InternalAddresses == {"127.0.0.1", "169.254.169.254"}

\* the address a connection to a host name reaches: aiohttp and GDAL ask the resolver
\* again when they connect, and it answers what it answered validate_remote_url or, its
\* record having changed, another address
ConnectAddresses == {dns.ips[1]} \cup InternalAddresses

\* the requests that follow a 3xx answer: aiohttp follows redirects of a GET
\* (allow_redirects defaults to True) to whatever host the Location header names
Redirects(url) ==
    {<<>>} \cup {<<[method |-> "GET", url |-> url, addr |-> a]>> : a \in ConnectAddresses}

\* http_session.head(actual_url) of a CSV source, nothing for WFS, http_session.get
\* (request.url) otherwise
NetFetch ==
    /\ pc = "remote_fetch"
    /\ dns.kind = "ok"
    /\ IF is_csv(request.url)
       THEN /\ \E addr \in ConnectAddresses :
                  net' = Append(net, [method |-> "HEAD",
                                      url |-> strip_csv_prefix(request.url),
                                      addr |-> addr])
            /\ pc' = "remote_open"
            /\ UNCHANGED response
       ELSE IF is_wfs(request.url)
       THEN /\ pc' = "remote_open"
            /\ UNCHANGED <<net, response>>
       ELSE \E addr \in ConnectAddresses, hops \in Redirects(request.url),
               get \in GetOutcomes :
            /\ net' = Append(net, [method |-> "GET", url |-> request.url,
                                   addr |-> addr]) \o hops
            /\ IF get = "200"
               THEN /\ pc' = "remote_open"
                    /\ UNCHANGED response
               ELSE /\ response' = IF get = "404"
                                   THEN ErrorResponse(400, "Unable to download remote file")
                                   ELSE ErrorResponse(500, "Internal Server Error")
                    /\ pc' = "done"
    /\ UNCHANGED <<request, file, dns, validated, benign, local, disk, dataset, tools, s3,
                   map_layers, user_mundiai_maps, layer_styles>>

\* fiona.open(ogr_source) and ogr2ogr: they read the source over the network unless it
\* is the downloaded file
NetOpen ==
    /\ pc = "remote_open"
    /\ IF prepare_source(request.url).temp_file_path = None
       THEN \E addr \in ConnectAddresses :
                net' = Append(net, [method |-> "OGR",
                                    url |-> prepare_source(request.url).ogr_source,
                                    addr |-> addr])
       ELSE UNCHANGED net
    /\ pc' = "done"
    /\ UNCHANGED <<request, file, dns, validated, benign, local, disk, dataset, tools, s3,
                   map_layers, user_mundiai_maps, layer_styles, response>>

NetNext == RemoteValidate \/ NetFetch \/ NetOpen

SpecNet == NetInit /\ [][NetNext]_vars

----------------------------------------------------------------------------
(* get_layer_mvt_tile: the tile query raced against the client's disconnect *)

RECURSIVE Pow2(_)
\* 1 << z
Pow2(z) == IF z = 0 THEN 1 ELSE 2 * Pow2(z - 1)

\* z, x, y of the path and whether accept-encoding names gzip
MvtRequests ==
    [z : -1..MaxTileCoord \cup {19}, x : -1..MaxTileCoord + 1, y : -1..MaxTileCoord + 1,
     gzip : BOOLEAN]

\* what fetch_mvt_tile gives once it completes: None, empty bytes, a tile, or an error
MvtResults == {"None", "", "tile", "InternalServerError"}

MvtTasks == {"fetchval_task", "disconnect_task"}

MvtInit ==
    /\ pc = [handler |-> "idle", fetchval_task |-> "none", disconnect_task |-> "none"]
    /\ request \in MvtRequests
    /\ dataset \in [result : MvtResults]
    /\ local = [done |-> {}, pending |-> {}, completed_task |-> ""]
    /\ response = NoResponse
    /\ AtRest

\* "Validate tile coordinates"
tile_rejected(z, x, y) ==
    z < 0 \/ z > 18 \/ x < 0 \/ y < 0 \/ x >= Pow2(z) \/ y >= Pow2(z)

\* the tile coordinate check, the lookup of the connection, and the creation of the
\* two tasks up to the await of asyncio.wait
MvtReceive ==
    /\ pc.handler = "idle"
    /\ IF tile_rejected(request.z, request.x, request.y)
       THEN /\ response' = ErrorResponse(400, "Invalid tile coordinates")
            /\ pc' = [pc EXCEPT !.handler = "done"]
       ELSE \E connection_details \in BOOLEAN :
            IF ~connection_details
            THEN /\ response' = ErrorResponse(404, "PostGIS connection not found")
                 /\ pc' = [pc EXCEPT !.handler = "done"]
            ELSE /\ pc' = [handler |-> "wait", fetchval_task |-> "running",
                           disconnect_task |-> "running"]
                 /\ UNCHANGED response
    /\ UNCHANGED <<local, attr_untouched>>

\* fetch_mvt_tile returns or raises: fetchval_task is done
MvtFetched ==
    /\ pc.handler = "wait"
    /\ pc.fetchval_task = "running"
    /\ pc' = [pc EXCEPT !.fetchval_task = "done"]
    /\ UNCHANGED <<local, response, attr_untouched>>

\* request.receive() gives http.disconnect: watch_disconnect returns, disconnect_task
\* is done
MvtDisconnected ==
    /\ pc.handler = "wait"
    /\ pc.disconnect_task = "running"
    /\ pc' = [pc EXCEPT !.disconnect_task = "done"]
    /\ UNCHANGED <<local, response, attr_untouched>>

\* gzip.compress(mvt_data) if the client accepts gzip and there is data
mvt_content(mvt_data, gzip) ==
    IF gzip /\ mvt_data # "" THEN [content |-> mvt_data, encoding |-> "gzip"]
    ELSE [content |-> mvt_data, encoding |-> ""]

\* the handler resumes from asyncio.wait(..., return_when=FIRST_COMPLETED) with the
\* tasks done by then in done and the others in pending, cancels and awaits the
\* pending ones, takes done.pop() (an arbitrary element of the set) and responds
MvtResume ==
    /\ pc.handler = "wait"
    /\ \E done \in {{t \in MvtTasks : pc[t] = "done"}} :
       /\ done # {}
       /\ \E completed_task \in done :
          /\ local' = [done |-> done \ {completed_task}, pending |-> MvtTasks \ done,
                       completed_task |-> completed_task]
          /\ pc' = [t \in DOMAIN pc |->
                       IF t = "handler" THEN "done"
                       ELSE IF pc[t] = "running" THEN "cancelled" ELSE pc[t]]
          /\ response' =
                 IF completed_task = "disconnect_task"
                 THEN [status |-> 200, content |-> "", encoding |-> ""]
                 ELSE IF dataset.result = "InternalServerError"
                 THEN ErrorResponse(500, "Internal Server Error")
                 ELSE [status |-> 200,
                       content |-> mvt_content(IF dataset.result = "None" THEN ""
                                               ELSE dataset.result, request.gzip).content,
                       encoding |-> mvt_content(IF dataset.result = "None" THEN ""
                                                ELSE dataset.result, request.gzip).encoding]
    /\ UNCHANGED attr_untouched

MvtNext == MvtReceive \/ MvtFetched \/ MvtDisconnected \/ MvtResume

SpecMvt == MvtInit /\ [][MvtNext]_vars

----------------------------------------------------------------------------
(* get_project_room: the cached room of one project, asked for by several   *)
(* requests at once                                                         *)

RoomCallers == 1..MaxRoomCallers

\* redis_key in redis, the rooms the DriftDB server holds, the number of rooms it has
\* created, and whether the TTL of the key has run out: at the start no room was ever
\* made, or room 1 was made and cached and the server still holds it or has dropped it
RoomStores ==
    {[redis |-> None, rooms |-> {}, created |-> 0, expired |-> FALSE],
     [redis |-> Some(1), rooms |-> {1}, created |-> 1, expired |-> FALSE],
     [redis |-> Some(1), rooms |-> {}, created |-> 1, expired |-> FALSE]}

RoomInit ==
    /\ pc = [c \in RoomCallers |-> "idle"]
    /\ request = NoRequest
    /\ dataset \in RoomStores
    /\ local = [c \in RoomCallers |-> [room_id |-> None]]
    /\ response = [c \in RoomCallers |-> NoResponse]
    /\ AtRest

\* the part of the state get_project_room never touches
room_untouched ==
    <<request, file, dns, validated, benign, disk, net, tools, s3, map_layers,
      user_mundiai_maps, layer_styles>>

\* RoomResponse(room_id=room_id)
RoomResponse(room_id) == [status |-> 200, room_id |-> room_id]


\* room_id = redis.get(redis_key) and `if room_id`
RoomGet(c) ==
    /\ pc[c] = "idle"
    /\ local' = [local EXCEPT ![c].room_id = dataset.redis]
    /\ pc' = [pc EXCEPT ![c] = IF dataset.redis # None THEN "validate" ELSE "create"]
    /\ UNCHANGED <<dataset, response, room_untouched>>

\* client.get(.../room/{room_id}): 200 for a room that exists returns it, any other
\* status or an exception deletes the key
RoomValidate(c) ==
    /\ pc[c] = "validate"
    /\ \E answer \in (IF local[c].room_id[1] \in dataset.rooms THEN {"200"} ELSE {"404"})
                         \cup {"exception"} :
        IF answer = "200"
        THEN /\ response' = [response EXCEPT ![c] = RoomResponse(local[c].room_id[1])]
             /\ pc' = [pc EXCEPT ![c] = "done"]
             /\ UNCHANGED dataset
        ELSE /\ dataset' = [dataset EXCEPT !.redis = None]
             /\ pc' = [pc EXCEPT ![c] = "create"]
             /\ UNCHANGED response
    /\ UNCHANGED <<local, room_untouched>>

\* client.post(.../new): a status other than 200 or an answer without a room raises 500
RoomCreate(c) ==
    /\ pc[c] = "create"
    /\ \E answer \in {"200", "500", "no room"} :
        IF answer = "200"
        THEN /\ dataset' = [dataset EXCEPT !.rooms = @ \cup {dataset.created + 1},
                                            !.created = @ + 1]
             /\ local' = [local EXCEPT ![c].room_id = Some(dataset.created + 1)]
             /\ pc' = [pc EXCEPT ![c] = "store"]
             /\ UNCHANGED response
        ELSE /\ response' = [response EXCEPT ![c] =
                                 ErrorResponse(500, IF answer = "500"
                                                    THEN "Failed to create room"
                                                    ELSE "Invalid response from room creation service")]
             /\ pc' = [pc EXCEPT ![c] = "done"]
             /\ UNCHANGED <<dataset, local>>
    /\ UNCHANGED room_untouched

\* redis.setex(redis_key, 1800, room_id) and the return
RoomStore(c) ==
    /\ pc[c] = "store"
    /\ dataset' = [dataset EXCEPT !.redis = local[c].room_id]
    /\ response' = [response EXCEPT ![c] = RoomResponse(local[c].room_id[1])]
    /\ pc' = [pc EXCEPT ![c] = "done"]
    /\ UNCHANGED <<local, room_untouched>>

\* the 30 minutes of the key run out
RoomExpire ==
    /\ dataset.redis # None
    /\ dataset' = [dataset EXCEPT !.redis = None, !.expired = TRUE]
    /\ UNCHANGED <<pc, local, response, room_untouched>>

RoomNext ==
    \/ \E c \in RoomCallers : RoomGet(c) \/ RoomValidate(c) \/ RoomCreate(c) \/ RoomStore(c)
    \/ RoomExpire

SpecRoom == RoomInit /\ [][RoomNext]_vars

----------------------------------------------------------------------------
(* Byte-range serving: get_layer_cog_tif, get_layer_pmtiles, get_layer_laz *)

BYTES_EQ == <<"b", "y", "t", "e", "s", "=">>
DigitChars == <<"0", "1", "2", "3", "4", "5", "6", "7", "8", "9">>

RECURSIVE str(_)
\* str(n) of a non-negative int
str(n) ==
    IF n < 10 THEN <<DigitChars[n + 1]>> ELSE str(n \div 10) \o <<DigitChars[(n % 10) + 1]>>

RECURSIVE int(_)
\* int(s) of a non-empty string of digits
int(s) ==
    IF Len(s) = 1 THEN IndexIn(DigitChars, s[1]) - 1
    ELSE 10 * int(Upto(s, Len(s) - 1)) + IndexIn(DigitChars, s[Len(s)]) - 1

RECURSIVE DigitRun(_, _)
\* the number of characters \d* takes at offset i of s
DigitRun(s, i) == IF i < Len(s) /\ s[i + 1] \in Digits THEN 1 + DigitRun(s, i + 1) ELSE 0

\* whether bytes=(\d+)-(\d*) matches at offset i of s
range_match_at(s, i) ==
    /\ MatchAt(s, BYTES_EQ, i)
    /\ DigitRun(s, i + 6) >= 1
    /\ MatchAt(s, <<"-">>, i + 6 + DigitRun(s, i + 6))

\* the two groups of a match at offset i
range_groups(s, i) ==
    [first |-> SubSeq(s, i + 7, i + 6 + DigitRun(s, i + 6)),
     last  |-> SubSeq(s, i + 8 + DigitRun(s, i + 6),
                      i + 7 + DigitRun(s, i + 6) + DigitRun(s, i + 7 + DigitRun(s, i + 6)))]

\* re.search(r"bytes=(\d+)-(\d*)", range_header): the groups of the leftmost match
range_match(s) ==
    IF \E i \in 0..Len(s) : range_match_at(s, i)
    THEN Some(range_groups(s, MinOf({i \in 0..Len(s) : range_match_at(s, i)})))
    ELSE None

\* the values of the Range header: absent, empty, or a unit, "=", a number or nothing,
\* "-", a number or nothing
RangeNumbers == {<<>>} \cup {str(n) : n \in 0..MaxRangeNumber}
RangeHeaders ==
    {None, Some(<<>>)}
    \cup {Some(unit \o first \o <<"-">> \o last) :
            unit \in {BYTES_EQ, <<"i", "t", "e", "m", "s", "=">>},
            first \in RangeNumbers, last \in RangeNumbers}

RangeEndpoints == {"get_layer_cog_tif", "get_layer_pmtiles", "get_layer_laz"}

RangeInit ==
    /\ pc = "idle"
    /\ request \in [endpoint : RangeEndpoints, range : RangeHeaders]
    /\ dataset \in [file_size : 1..MaxFileSize]
    /\ local = [file_size |-> 0, range_header |-> None, start_byte |-> 0, end_byte |-> 0,
                content_length |-> 0]
    /\ response = NoResponse
    /\ AtRest

\* start_byte and end_byte as the parsing of the Range header leaves them
parsed_range(range_header, file_size) ==
    IF range_match(range_header) = None
    THEN [start_byte |-> 0, end_byte |-> file_size - 1]
    ELSE [start_byte |-> int(range_match(range_header)[1].first),
          end_byte |-> IF range_match(range_header)[1].last # <<>>
                       THEN MinOf({int(range_match(range_header)[1].last), file_size - 1})
                       ELSE file_size - 1]

\* head_object, the Range header and its parsing
RangeParse ==
    /\ pc = "idle"
    /\ IF request.range # None /\ request.range[1] # <<>>
       THEN \E p \in {parsed_range(request.range[1], dataset.file_size)} :
                local' = [file_size |-> dataset.file_size, range_header |-> request.range,
                          start_byte |-> p.start_byte, end_byte |-> p.end_byte,
                          content_length |-> p.end_byte - p.start_byte + 1]
       ELSE local' = [file_size |-> dataset.file_size, range_header |-> None,
                      start_byte |-> 0, end_byte |-> dataset.file_size - 1,
                      content_length |-> 0]
    /\ pc' = "serve"
    /\ UNCHANGED <<response, attr_untouched>>

\* a range object storage can serve from an object of file_size bytes
satisfiable(start_byte, end_byte, file_size) == start_byte <= end_byte /\ start_byte < file_size

\* get_object and the status and headers of the response. get_layer_cog_tif calls
\* get_object before it builds the response, so an error of object storage becomes a
\* 500; the other two call it while the body is streamed, after the headers are sent
RangeServe ==
    /\ pc = "serve"
    /\ IF local.range_header # None
       THEN \E s3_ok \in {TRUE} \cup
                         {satisfiable(local.start_byte, local.end_byte, local.file_size)} :
            response' =
                IF request.endpoint = "get_layer_cog_tif" /\ ~s3_ok
                THEN ErrorResponse(500, "Internal Server Error")
                ELSE [status_code |-> 206,
                      content_range |-> Some(<<local.start_byte, local.end_byte,
                                               local.file_size>>),
                      content_length |-> local.content_length,
                      s3_range |-> Some(<<local.start_byte, local.end_byte>>)]
       ELSE response' = [status_code |-> 200, content_range |-> None,
                         content_length |-> local.file_size, s3_range |-> None]
    /\ pc' = "done"
    /\ UNCHANGED <<local, attr_untouched>>

RangeNext == RangeParse \/ RangeServe

SpecRange == RangeInit /\ [][RangeNext]_vars

----------------------------------------------------------------------------
(* Claims *)

\* validate_remote_url has consulted the resolver for the request
Resolved == dns.kind # "unused"

PublicAddresses == {"93.184.216.34"}
\* private, loopback, link-local, multicast, or one of the three metadata addresses
NonPublicAddresses ==
    {"10.0.0.1", "127.0.0.1", "169.254.1.1", "224.0.0.1",
     "169.254.169.254", "169.254.170.2", "100.100.100.200"}

\* C1: validate_remote_url rejects with 400 every URL whose hostname resolves to a list
\* holding at least one private, loopback, link-local, multicast or metadata address,
\* wherever in the list it stands, and it accepts only if every address is public
C1_RejectsAnyNonPublicAddress ==
    dns.kind = "ok" =>
        /\ (\E i \in 1..Len(dns.ips) : dns.ips[i] \in NonPublicAddresses)
               => (~validated /\ response.status = 400)
        /\ validated => \A i \in 1..Len(dns.ips) : dns.ips[i] \in PublicAddresses

\* a public address first and a private one second: rejected
C1_Witness ==
    /\ dns.kind = "ok" /\ Len(dns.ips) = 2
    /\ dns.ips[1] \in PublicAddresses /\ dns.ips[2] = "10.0.0.1"
    /\ ~validated /\ response.status = 400
    /\ response.detail = "Access to private IP addresses is not allowed"

\* C2: validate_remote_url fails closed: a resolver failure, an address string that does
\* not parse, or another exception during validation (of the resolver, or of urlparse)
\* ends in a 400 and the URL is never returned as valid
C2_FailClosed ==
    /\ (dns.kind \in {"gaierror", "error"}
        \/ \E i \in 1..Len(dns.ips) : dns.ips[i] = "not-an-address")
           => (~validated /\ response.status = 400)
    /\ (pc \notin {"idle", "add_remote_layer"} /\ request # NoRequest
        /\ request.source_type # "sheets"
        /\ (StartsWith(request.url, HTTP_SCHEME) \/ StartsWith(request.url, HTTPS_SCHEME))
        /\ urlparse(request.url).raises)
           => (~validated /\ response.status = 400 /\ response.detail = "Invalid URL format")

\* a public address first and an unparseable one second: rejected
C2_Witness ==
    /\ dns.kind = "ok" /\ Len(dns.ips) = 2
    /\ dns.ips[1] \in PublicAddresses /\ dns.ips[2] = "not-an-address"
    /\ ~validated /\ response.status = 400
    /\ response.detail = "Invalid IP address format"

\* C3: add_remote_layer issues no request to the remote resource (HEAD probe, GET
\* download, OGR open) unless validate_remote_url has returned for the request's URL;
\* a rejected URL causes no outbound request
C3_NoRequestBeforeValidation ==
    /\ net # <<>> => validated
    /\ (request # NoRequest /\ pc \notin {"idle", "add_remote_layer"} /\ ~validated)
           => (net = <<>> /\ pc = "done" /\ response.status = 400)

\* the HEAD probe of a validated CSV source has been sent
C3_Witness ==
    /\ validated /\ Len(net) >= 1 /\ net[1].method = "HEAD"
    /\ dns.kind = "ok"

\* the effective URL: the URL with the CSV:/vsicurl/ prefix removed for sheets
EffectiveUrl(req) ==
    IF req.source_type = "sheets" THEN From(req.url, Len(CSV_VSICURL)) ELSE req.url

\* C4: validate_remote_url accepts the format of a URL (and goes on to resolve the
\* hostname) only if a sheets URL begins with CSV:/vsicurl/, the effective URL begins
\* with http:// or https://, and the effective URL has a hostname
C4_FormatAcceptedOnlyIf ==
    Resolved =>
        /\ request.source_type = "sheets" => StartsWith(request.url, CSV_VSICURL)
        /\ \/ StartsWith(EffectiveUrl(request), HTTP_SCHEME)
           \/ StartsWith(EffectiveUrl(request), HTTPS_SCHEME)
        /\ hostname_of(urlparse(EffectiveUrl(request)).netloc) # <<>>

EsriQueryUrl == HTTPS_SCHEME \o <<"a", ".", "i", "o">> \o FEATURE_SERVER \o <<"/", "0">> \o QUERY

\* C5: a vector request whose URL is ESRIJSON: followed by an https FeatureServer /query
\* URL succeeds and creates a vector layer when every collaborator behaves
C5_EsriJsonPrefixAccepted ==
    (pc = "done" /\ benign /\ request.source_type = "vector"
     /\ request.url = ESRIJSON_COLON \o EsriQueryUrl)
        => /\ response.status = 200
           /\ response.id \in DOMAIN map_layers
           /\ map_layers[response.id].type = "vector"

\* C6: the declared source type decides the layer type: an accepted raster request gives
\* a raster layer and an accepted sheets request a vector layer
C6_DeclaredTypeAuthoritative ==
    (pc = "done" /\ request # NoRequest /\ response.status = 200)
        => /\ request.source_type = "raster" => response.type = "raster"
           /\ request.source_type = "sheets" => response.type = "vector"

\* the URL names a cloud-native file: .pmtiles, .tif or .tiff
CloudNative(url) ==
    Lower(PathSuffix(urlparse(url).path)) \in {EXT_PMTILES, EXT_TIF, EXT_TIFF}

\* C7: a cloud-native remote URL is never downloaded into a temporary file and neither
\* ogr2ogr nor the tile builder runs on it
C7_CloudNativeNeverMaterialized ==
    (request # NoRequest /\ ~is_csv(request.url) /\ CloudNative(request.url))
        => /\ disk = {}
           /\ tools = <<>>
           /\ \A i \in 1..Len(net) : net[i].method # "GET"

\* C8: a success response of add_remote_layer with add_layer_to_map names a layer that
\* is a row of map_layers and a member of the layers array of the map it names
C8_SuccessMeansLayerInMap ==
    (pc = "done" /\ request # NoRequest /\ response.status = 200
     /\ request.add_layer_to_map)
        => /\ response.id \in DOMAIN map_layers
           /\ \E i \in 1..Len(user_mundiai_maps[response.dag_child_map_id].layers) :
                  user_mundiai_maps[response.dag_child_map_id].layers[i] = response.id

\* C9: every row add_remote_layer creates stores original_url = the request URL,
\* source = "remote" and an original_filename in its metadata
C9_RemoteRowMetadata ==
    \A id \in DOMAIN map_layers :
        map_layers[id].remote_url # None
            => /\ {"original_url", "source", "original_filename"}
                      \subseteq DOMAIN map_layers[id].metadata
               /\ map_layers[id].metadata["original_url"] = request.url
               /\ map_layers[id].metadata["source"] = "remote"

\* C10: an upload whose vector dataset has no features is rejected with 400, the tile
\* builder is not run and no row is created
C10_EmptyUploadRejected ==
    (pc = "done" /\ file # NoFile /\ local.layer_type = "vector"
     /\ local.feature_count = Some(0))
        => /\ response.status = 400
           /\ local.layer_id \notin DOMAIN map_layers

\* C11: a successful upload of a KML or KMZ file with n sublayers leaves n layer
\* records, one per sublayer, and a successful upload of any other format leaves one
C11_OneLayerPerSublayer ==
    (pc = "done" /\ file # NoFile /\ response.status = 200)
        => Cardinality(DOMAIN map_layers) = file.sublayers

\* the header names of the uploaded CSV after trimming and lower-casing
C12_Names == {Lower(Strip(file.header[i])) : i \in 1..Len(file.header)}

C12_Longitude ==
    {<<"l", "o", "n">>, <<"l", "o", "n", "g">>, <<"l", "n", "g">>, <<"x">>,
     <<"l", "o", "n", "g", "i", "t", "u", "d", "e">>}

C12_Latitude == {<<"l", "a", "t">>, <<"y">>, <<"l", "a", "t", "i", "t", "u", "d", "e">>}

C12_HeaderPasses == C12_Names \cap C12_Longitude # {} /\ C12_Names \cap C12_Latitude # {}

C12_IsCsvUpload ==
    /\ file # NoFile
    /\ Lower(SplitExt(file.filename)) = EXT_CSV
    /\ pc \notin {"idle", "internal_upload_layer"}

\* C12: the header check of an uploaded CSV passes exactly if, trimmed and lower-cased,
\* one header name is a longitude name and one is a latitude name; if it fails the
\* upload is answered 400 and no tool has run, no object is stored and no row exists
C12_CsvHeaderCheck ==
    C12_IsCsvUpload =>
        IF C12_HeaderPasses
        THEN /\ tools # <<>>
             /\ tools[1].cmd = "ogr2ogr"
        ELSE /\ pc = "done"
             /\ response.status = 400
             /\ tools = <<>>
             /\ s3 = {}
             /\ map_layers = <<>>
             /\ user_mundiai_maps[ForkedMapId].layers = <<"L0">>

\* a CSV with a longitude column and no latitude column has been rejected
C12_Witness ==
    /\ C12_IsCsvUpload
    /\ file.header = <<<<"x">>, <<"n", "a", "m", "e">>>>
    /\ response.status = 400

\* C13: the tile builder never passes -zg to tippecanoe for a dataset whose features
\* occupy fewer than two distinct locations, so tippecanoe never fails on such a dataset
C13_NoZoomGuessForOneLocation ==
    \A i \in 1..Len(tools) :
        (tools[i].cmd = "tippecanoe -zg" /\ dataset.feature_count >= 1)
            => dataset.distinct_locations >= 2

\* xmin <= xmax, ymin <= ymax, longitudes in [-180, 180] and latitudes in [-90, 90]
C14_WellFormed(b) ==
    /\ b[1] <= b[3] /\ b[2] <= b[4]
    /\ \A i \in {1, 3} : -180 <= b[i] /\ b[i] <= 180
    /\ \A i \in {2, 4} : -90 <= b[i] /\ b[i] <= 90

\* C14: every non-null bounds stored for a layer is a well-formed WGS84 box, whatever
\* the CRS of the source
C14_BoundsAreWgs84 ==
    \A id \in DOMAIN map_layers :
        map_layers[id].bounds # None => C14_WellFormed(map_layers[id].bounds[1])

\* C15: when an exception occurred inside get_layer_bounds_and_metadata, at whatever
\* step, the ingestion goes on with null bounds, geometry type "unknown" and a null
\* feature count
C15_ExtractionFailureGivesNulls ==
    (local.layer_type = "vector" /\ dataset.fails \in {"open", "first_feature", "transform"})
        => /\ local.bounds = None
           /\ local.geometry_type = "unknown"
           /\ local.feature_count = None

\* C16: when a request has finished, by success or by failure, no temporary file or
\* directory it created is left on the local disk
C16_NoTempFilesLeft == pc = "done" => disk = {}

\* an external tool run by the request exited with a non-zero status
ToolFailed == \E i \in 1..Len(tools) : tools[i].rc # 0

\* C17: an upload during which an external tool failed ends in failure and leaves no
\* map_layers row, no entry in the layers of the map and no style row
C17_ToolFailureLeavesNothing ==
    (pc = "done" /\ file # NoFile /\ ToolFailed)
        => /\ response.status # 200
           /\ map_layers = <<>>
           /\ user_mundiai_maps[ForkedMapId].layers = <<"L0">>
           /\ layer_styles = {}

\* C18: a vector ingestion during which the reprojection or the tiling tool exited
\* non-zero on a dataset with features at two or more locations (so that the
\* single-location case is not involved) does not return success
C18_TileFailureAborts ==
    (/\ pc = "done" /\ local.layer_type = "vector"
     /\ dataset.distinct_locations >= 2
     /\ ToolFailed)
        => response.status # 200

C19_IsPointCloud == file # NoFile /\ Lower(SplitExt(file.filename)) \in {EXT_LAS, EXT_LAZ}

\* the request was answered 400 and no tool has run and no object is stored
C19_Rejected == pc = "done" /\ response.status = 400 /\ tools = <<>> /\ s3 = {}

\* las2las64 and then lasinfo64 have run, lasinfo64 exited with 0, and the file to
\* upload is the transcoded one, which exists
C19_Transcoded ==
    /\ Len(tools) = 2
    /\ tools[1].cmd = "las2las64"
    /\ tools[2] = Ran("lasinfo64", 0)
    /\ local.temp_file_path # local.temp_file
    /\ local.temp_file_path \in disk

\* C19: a point-cloud upload whose file embeds no CRS is answered 400 before the
\* transcoder runs and before anything is stored; otherwise the object is stored only
\* when the transcoded file exists and lasinfo64 has exited with 0 on it
C19_PointCloudUploadOrder ==
    [][C19_IsPointCloud =>
          /\ (~file.has_crs /\ pc = "internal_upload_layer") => C19_Rejected'
          /\ s3' # s3 => (file.has_crs /\ C19_Transcoded)]_vars

\* the transcoded file of a point-cloud upload has been stored
C19_Witness == C19_IsPointCloud /\ file.has_crs /\ s3 # {} /\ response.status = 200

\* C20: a request that arrives after cog_key = cog/layer/<layer_id>.cog.tif was stored in
\* the metadata of the layer runs no GDAL tool and uploads nothing, and when it has
\* finished it has served the stored object; the stored key is the key of an object
\* that exists
C20_LaterRequestsServeStoredCog ==
    /\ \A r \in CogRequests :
          local[r].later
              => /\ local[r].ran = <<>>
                 /\ ~local[r].uploaded
                 /\ pc[r] \in {"serve", "done"}
                 /\ (pc[r] = "done"
                        => /\ response[r].status = 200
                           /\ response[r].url = <<"cog/layer/", "L1", ".cog.tif">>)
    /\ "cog_key" \in DOMAIN map_layers["L1"].metadata
          => /\ map_layers["L1"].metadata["cog_key"] = <<"cog/layer/", "L1", ".cog.tif">>
             /\ map_layers["L1"].metadata["cog_key"] \in s3

\* a request that arrived after the key was stored has been served
C20_Witness ==
    \E r \in CogRequests :
        /\ local[r].later
        /\ pc[r] = "done"
        /\ response[r].status = 200
        /\ \E q \in CogRequests : local[q].uploaded

\* the probe (gdalinfo) of request r failed / its final repack ran and failed
C21_ProbeFailed(r) == local[r].ran[1].cmd = "gdalinfo" /\ local[r].ran[1].rc # 0

C21_RepackFailed(r) ==
    /\ local[r].ran[Len(local[r].ran)].cmd \in
           {"gdal_translate -of COG JPEG", "gdal_translate -of COG LZW"}
    /\ local[r].ran[Len(local[r].ran)].rc # 0

\* the request ended with one of the two error responses of the build
C21_BuildError(r) ==
    /\ pc[r] = "done"
    /\ response[r].detail \in {"Failed to process raster info", "COG generation failed"}

\* C21: a build error is answered exactly when the probe failed or the final repack ran
\* and failed; otherwise, whatever gdalwarp and the RGB expansion returned, the build
\* goes on to the upload, and once uploaded it ends with the key stored and the COG
\* served
C21_FallbacksNeverFail ==
    \A r \in CogRequests :
        local[r].ran # <<>>
            => /\ C21_BuildError(r) <=> (C21_ProbeFailed(r) \/ C21_RepackFailed(r))
               /\ ~(C21_ProbeFailed(r) \/ C21_RepackFailed(r))
                      => /\ pc[r] \in {"upload", "update", "serve", "done"}
                         /\ (pc[r] = "done" /\ local[r].uploaded)
                                => /\ response[r].status = 200
                                   /\ "cog_key" \in DOMAIN map_layers[CogLayerId].metadata

\* a build in which gdalwarp and the RGB expansion both failed has been served
C21_Witness ==
    \E r \in CogRequests :
        /\ \E i \in 1..Len(local[r].ran) : local[r].ran[i] = Ran("gdalwarp", 1)
        /\ \E i \in 1..Len(local[r].ran) :
               local[r].ran[i] = Ran("gdal_translate -expand rgb", 1)
        /\ pc[r] = "done"
        /\ response[r].status = 200
        /\ "cog_key" \in DOMAIN map_layers[CogLayerId].metadata

\* request r has read the metadata of the layer and has not yet written it back
C22_BetweenReadAndWrite(r) == pc[r] \in {"download", "build", "upload", "update"}

\* C22: attaching a key is one atomic update: while a request is between its read of the
\* metadata and the write that adds the key, no other request writes the metadata of the
\* layer, so the stored metadata is still the one the request read
C22_AttachIsAtomic ==
    \A r \in CogRequests :
        C22_BetweenReadAndWrite(r)
            => map_layers[CogLayerId].metadata = local[r].layer[1].metadata

\* the positions a page must hold: offset .. min(offset + limit, N) - 1
C23_Page(offset, limit, n) ==
    [i \in 1..(IF offset + limit < n THEN limit
               ELSE IF n > offset THEN n - offset ELSE 0) |-> offset + i - 1]

\* C23: a request with offset >= 0 and 1 <= limit <= 100 is answered with the features at
\* positions offset .. min(offset + limit, N) - 1 in source order and with has_more true
\* exactly if offset + limit < N; every other request is answered 400
C23_PageIsExact ==
    pc = "done" =>
        IF request.offset >= 0 /\ 1 <= request.limit /\ request.limit <= 100
        THEN /\ response.status = 200
             /\ response.data = C23_Page(request.offset, request.limit, dataset.feature_count)
             /\ response.has_more = (request.offset + request.limit < dataset.feature_count)
        ELSE response.status = 400

\* a page in the middle of a layer has been returned
C23_Witness ==
    /\ pc = "done"
    /\ request.offset = 1 /\ request.limit = 1 /\ dataset.feature_count = 3
    /\ response.status = 200
    /\ response.data = <<1>>
    /\ response.has_more

\* C24: every stored remote URL is assigned to the same source family (CSV, WFS, ESRI,
\* generic HTTP) by the file processing of add_remote_layer that ingested it and by
\* MapLayer.get_ogr_source that opens it when it is served
C24_SameFamilyAtIngestionAndServing ==
    \A id \in DOMAIN map_layers :
        map_layers[id].remote_url # None
            => ingestion_family(map_layers[id].remote_url)
                   = serving_family(map_layers[id].remote_url)

\* the repack into a COG ran for request r after a gdalwarp that succeeded
C25_RepackedAfterReprojection(r) ==
    /\ \E i \in 1..Len(local[r].ran) : local[r].ran[i] = Ran("gdalwarp", 0)
    /\ \E i \in 1..Len(local[r].ran) :
           local[r].ran[i].cmd \in {"gdal_translate -of COG JPEG",
                                    "gdal_translate -of COG LZW"}

\* C25: whenever gdalwarp succeeded, the file repacked into the COG is the reprojected
\* file or the RGB expansion of the reprojected file
C25_ReprojectionNeverLost ==
    \A r \in CogRequests :
        C25_RepackedAfterReprojection(r)
            => \/ local[r].input_file_for_cog = "reprojected_file_path"
               \/ /\ local[r].input_file_for_cog = "local_rgb_file"
                  /\ local[r].rgb_input = "reprojected_file_path"

\* the four corners of a width x height image under the geotransform gt
C26_Corners(gt, width, height) ==
    {<<gt[0] + col * gt[1] + row * gt[2], gt[3] + col * gt[4] + row * gt[5]>> :
        col \in {0, width}, row \in {0, height}}

\* C26: the bounds computed from a geotransform are well ordered and enclose every
\* corner of the image
C26_BoundsEncloseCorners ==
    pc = "done"
        => /\ local.bounds[1][1] <= local.bounds[1][3]
           /\ local.bounds[1][2] <= local.bounds[1][4]
           /\ \A c \in C26_Corners(dataset.gt, dataset.width, dataset.height) :
                  /\ local.bounds[1][1] <= c[1] /\ c[1] <= local.bounds[1][3]
                  /\ local.bounds[1][2] <= c[2] /\ c[2] <= local.bounds[1][4]

\* C27: every address a network request of add_remote_layer reaches is one of the
\* addresses validate_remote_url resolved and approved for the request
C27_OnlyApprovedAddressesContacted ==
    \A i \in 1..Len(net) :
        /\ validated
        /\ \E j \in 1..Len(dns.ips) : net[i].addr = dns.ips[j]

\* the tile query of the request completed and returned a tile (or None)
C28_QuerySucceeded ==
    pc.fetchval_task = "done" /\ dataset.result # "InternalServerError"

\* C28: when get_layer_mvt_tile returns after the race, neither task is still running,
\* and if the tile query completed successfully its result is the response: the
\* disconnect response is returned only when the query had not completed
C28_RaceResolvesCleanly ==
    (pc.handler = "done" /\ pc.fetchval_task # "none")
        => /\ \A t \in MvtTasks : pc[t] # "running"
           /\ C28_QuerySucceeded => local.completed_task = "fetchval_task"
           /\ local.completed_task = "disconnect_task" => pc.fetchval_task # "done"

\* C29: while the cache entry of the project has not expired, all callers that
\* get_project_room answers receive the same room id
C29_OneRoomPerProject ==
    \A c1, c2 \in RoomCallers :
        (/\ pc[c1] = "done" /\ response[c1].status = 200
         /\ pc[c2] = "done" /\ response[c2].status = 200
         /\ ~dataset.expired)
            => response[c1].room_id = response[c2].room_id

\* the request carries a Range header
C30_HasRange == request.range # None /\ request.range[1] # <<>>

\* C30: on an object of N >= 1 bytes every response to a request with a Range header
\* has 0 <= start <= end <= N-1 in Content-Range, Content-Length = end-start+1 >= 1
\* and asks object storage for the same range; without a Range header the response is
\* 200 with Content-Length N
C30_RangeWellFormed ==
    pc = "done" =>
        IF C30_HasRange
        THEN /\ "content_range" \in DOMAIN response
             /\ response.content_range # None
             /\ 0 <= response.content_range[1][1]
             /\ response.content_range[1][1] <= response.content_range[1][2]
             /\ response.content_range[1][2] <= dataset.file_size - 1
             /\ response.content_length
                    = response.content_range[1][2] - response.content_range[1][1] + 1
             /\ response.content_length >= 1
             /\ response.s3_range
                    = Some(<<response.content_range[1][1], response.content_range[1][2]>>)
        ELSE /\ response.status_code = 200
             /\ response.content_length = dataset.file_size

====
